---- MODULE Spec2Model ----
(***************************************************************************)
(* Message deduplication pipeline (storage.py) and remote backup engine    *)
(* (backup.py) of the chat journal application.                            *)
(*                                                                         *)
(* Text is a sequence of Unicode code points (naturals).  A datetime is a  *)
(* number of seconds; the messages table is the sequence of its rows in    *)
(* ascending id order, so a row's id is its position.                      *)
(***************************************************************************)
EXTENDS Integers, Sequences, FiniteSets, TLC

VARIABLES
    messages,     \* storage: rows of the messages table, ascending id
    lastOp,       \* storage: last operation, its input and its returned dict
    text,         \* chunker: payload handed to _split_text_chunks_by_bytes
    max_bytes,    \* chunker: its max_bytes argument
    chunks,       \* chunker: whether the call returned, and the returned list
    chunkEnv,     \* backup: CHAT_APP_GITHUB_CHAT_CHUNK_BYTES of the process
    remote,       \* backup: branch head of the remote, path -> file bytes
    up,           \* backup: the _upload_chat_backup call in progress
    dl,           \* backup: the _download_chat_backup call in progress
    lastUpload,   \* backup: payload and writes of the last completed upload
    mf,           \* manifest codec: a path list, its manifest and the parse of it
    live,         \* sync: the chat messages and diary entries of the database
    stateFile,    \* sync: the persisted BackupState
    lastSig,      \* sync: _LAST_BACKUP_SIGNATURE
    stateLock,    \* sync: the holder of _BACKUP_STATE_LOCK
    headCommit,   \* sync: the counts in the latest commit of the canonical path
    sy,           \* sync: the maybe_backup_to_github call of each thread
    synced,       \* sync (history): the signature of the latest successful sync
    rb,           \* storage: the rebuild in progress and the tables of the file
    sched,        \* scheduler: the periodic backup loop and its measured times
    guard,        \* sync (history): the baseline of the latest blocked attempt
    starter,      \* scheduler: the calls of start_periodic_github_backup
    im            \* storage: the import_messages call in progress

vars == <<messages, lastOp, text, max_bytes, chunks,
          chunkEnv, remote, up, dl, lastUpload, mf,
          live, stateFile, lastSig, stateLock, headCommit, sy, synced, rb, sched,
          guard, starter, im>>

storageVars == <<messages, lastOp>>
chunkerVars == <<text, max_bytes, chunks>>
backupVars == <<chunkEnv, remote, up, dl, lastUpload>>
codecVars == <<mf>>
syncVars == <<live, stateFile, lastSig, stateLock, headCommit, sy, synced>>
rebuildVars == <<rb>>
schedulerVars == <<sched>>
guardVars == <<guard>>
starterVars == <<starter>>
importVars == <<im>>
engineVars ==
    <<codecVars, syncVars, rebuildVars, schedulerVars, guardVars, starterVars, importVars>>

\* Python's None, for an optional text, revision id or returned dict
None == [found |-> FALSE, text |-> <<>>]
Found(t) == [found |-> TRUE, text |-> t]
NoSha == [found |-> FALSE, sha |-> <<>>]
NoResult == [total |-> 0]

----------------------------------------------------------------------------
(* Bounds of the model.                                                    *)

MaxImport == 2      \* longest message list handed to one import call
MaxLen == 4         \* longest chunker payload, in code points
MaxBytes == 5       \* largest max_bytes argument tried on the chunker
MaxUpLen == 3       \* longest uploaded chat payload, in code points
MaxChat == 2        \* most messages in the database during a sync
MaxLegacy == 2      \* most rows in a database written before the present key
MaxPathLen == 2     \* longest chunk path handed to the manifest codec
MaxEnvSeconds == 61  \* largest configured interval of the dense range, in seconds
MaxElapsed == 2     \* longest of the short sync durations, in seconds
MaxBodyLen == 3     \* longest body of a damaged manifest

----------------------------------------------------------------------------
(* Text helpers: Python str semantics on code-point sequences.             *)

\* str.strip() / str.isspace(): the whitespace code points used by the model
IsSpace(c) == c \in {9, 10, 11, 12, 13, 28, 29, 30, 31, 32, 133, 160, 8232, 8233}

RECURSIVE LStrip(_)
LStrip(s) ==
    IF s = <<>> THEN <<>>
    ELSE IF IsSpace(Head(s)) THEN LStrip(Tail(s)) ELSE s

RECURSIVE RStrip(_)
RStrip(s) ==
    IF s = <<>> THEN <<>>
    ELSE IF IsSpace(s[Len(s)]) THEN RStrip(SubSeq(s, 1, Len(s) - 1)) ELSE s

Strip(s) == RStrip(LStrip(s))

\* "".join(ss)
RECURSIVE Concat(_)
Concat(ss) ==
    IF ss = <<>> THEN <<>>
    ELSE IF Len(ss) = 1 THEN ss[1]
    ELSE LET mid == Len(ss) \div 2
         IN Concat(SubSeq(ss, 1, mid)) \o Concat(SubSeq(ss, mid + 1, Len(ss)))

RECURSIVE SeqsUpTo(_, _)
SeqsUpTo(S, n) ==
    IF n = 0 THEN {<<>>}
    ELSE LET shorter == SeqsUpTo(S, n - 1)
         IN shorter \cup {Append(s, x) : s \in {t \in shorter : Len(t) = n - 1}, x \in S}

----------------------------------------------------------------------------
(* storage.py: message import and the rebuild pass.                        *)

SecondsPerMinute == 60

\* The two canonical sender labels (me_sender, other_sender) and the
\* senders that occur in imported transcripts: "M", " M" and "X".
me_sender == <<77>>
other_sender == <<79>>

\* The KakaoMessage values the parsers hand to the import functions, (dt,
\* sender, text) with dt in seconds: "a" from M at 0:00, " a" from X at 0:59
\* and "a" from " M" at 1:00.
KakaoMessages ==
    { [dt |-> 0,  sender |-> me_sender, text |-> <<97>>],
      [dt |-> 59, sender |-> <<88>>,    text |-> <<32, 97>>],
      [dt |-> 60, sender |-> <<32, 77>>, text |-> <<97>>] }

Sources == {"s1"}

\* datetime.isoformat(timespec="seconds"): "YYYY-MM-DDTHH:MM" and ":SS"
isoformat(dt) == <<dt \div SecondsPerMinute, dt % SecondsPerMinute>>

\* datetime.fromisoformat
fromisoformat(iso) == iso[1] * SecondsPerMinute + iso[2]

\* (variant) the timestamp is kept to the second
_dt_minute_seconds(dt) == dt

\* strftime("%Y-%m-%dT%H:%M"): the timestamp truncated to its minute
_dt_minute(dt) == dt \div SecondsPerMinute

\* kakao_parser.normalize_text_for_dedup: runs of whitespace collapse to one
\* space and the result is trimmed.
RECURSIVE CollapseWhitespace(_)
CollapseWhitespace(s) ==
    IF s = <<>> THEN <<>>
    ELSE IF IsSpace(Head(s)) THEN <<32>> \o CollapseWhitespace(LStrip(s))
    ELSE <<Head(s)>> \o CollapseWhitespace(Tail(s))

normalize_text_for_dedup(t) == Strip(CollapseWhitespace(t))

\* sha256 over "<dt_minute>\n<norm_text>": the digest is modelled by the
\* hashed string itself (dt_minute has a fixed width and holds no newline).
_dedup_key(dt_minute, norm_text) == <<dt_minute, 10>> \o norm_text

_canonicalize_sender(sender, me, other) ==
    IF Strip(sender) = me THEN me ELSE other

\* The row the INSERT statement of import_messages binds for one message.
ImportRow(msg, source) ==
    LET minute == _dt_minute(msg.dt)
        norm == normalize_text_for_dedup(msg.text)
    IN [dt |-> isoformat(msg.dt), dt_minute |-> minute, sender |-> msg.sender,
        text |-> msg.text, norm_text |-> norm,
        dedup_key |-> _dedup_key(minute, norm), source |-> source]

\* (variant) the insert is ignored only when the raw text is stored already
InsertOrIgnoreByText(tbl, row) ==
    IF \E i \in 1..Len(tbl) : tbl[i].dt_minute = row.dt_minute /\ tbl[i].text = row.text
    THEN [table |-> tbl, rowcount |-> 0]
    ELSE [table |-> Append(tbl, row), rowcount |-> 1]

\* (variant) the stored row of the key is replaced by the new one
InsertOrReplace(tbl, row) ==
    IF \E i \in 1..Len(tbl) : tbl[i].dedup_key = row.dedup_key
    THEN [table |-> Append(SelectSeq(tbl, LAMBDA r : r.dedup_key # row.dedup_key), row),
          rowcount |-> 1]
    ELSE [table |-> Append(tbl, row), rowcount |-> 1]

\* INSERT OR IGNORE under the UNIQUE constraint on dedup_key.
InsertOrIgnore(tbl, row) ==
    IF \E i \in 1..Len(tbl) : tbl[i].dedup_key = row.dedup_key
    THEN [table |-> tbl, rowcount |-> 0]
    ELSE [table |-> Append(tbl, row), rowcount |-> 1]

\* The for loop of import_messages; outcomes collects cur.rowcount.
RECURSIVE ImportLoop(_, _, _, _)
ImportLoop(tbl, msgs, source, outcomes) ==
    IF msgs = <<>> THEN [table |-> tbl, outcomes |-> outcomes]
    ELSE LET r == InsertOrIgnore(tbl, ImportRow(Head(msgs), source))
         IN ImportLoop(r.table, Tail(msgs), source, Append(outcomes, r.rowcount))

Count(seq, v) == Cardinality({i \in 1..Len(seq) : seq[i] = v})

\* (variant) every processed message counts as inserted
ImportResultCountAll(msgs, outcomes) ==
    [inserted |-> Len(outcomes), skipped |-> Count(outcomes, 0),
     total |-> Len(msgs)]

ImportResult(msgs, outcomes) ==
    [inserted |-> Count(outcomes, 1), skipped |-> Count(outcomes, 0),
     total |-> Len(msgs)]

IsImport(op) == op \in {"import_messages", "import_messages_canonicalized"}

\* Shared body of the two import operations: run the loop, commit, return.
DoImport(opname, given, msgs, source) ==
    LET r == ImportLoop(messages, msgs, source, <<>>)
    IN /\ messages' = r.table
       /\ lastOp' = [op |-> opname, msgs |-> given, source |-> source,
                     before |-> messages, outcomes |-> r.outcomes,
                     result |-> ImportResult(msgs, r.outcomes),
                     repeat |-> IsImport(lastOp.op) /\ lastOp.msgs = given,
                     again |-> FALSE,
                     first |-> IF IsImport(lastOp.op) /\ lastOp.msgs = given
                               THEN lastOp.result ELSE NoResult,
                     firstBefore |-> IF IsImport(lastOp.op) /\ lastOp.msgs = given
                                     THEN lastOp.before ELSE <<>>]

MessageLists == SeqsUpTo(KakaoMessages, MaxImport)

import_messages(msgs, source) ==
    /\ DoImport("import_messages", msgs, msgs, source)
    /\ UNCHANGED <<chunkerVars, backupVars, engineVars>>

Canonical(msgs) ==
    [i \in 1..Len(msgs) |->
        [dt |-> msgs[i].dt,
         sender |-> _canonicalize_sender(msgs[i].sender, me_sender, other_sender),
         text |-> msgs[i].text]]

import_messages_canonicalized(msgs, source) ==
    /\ DoImport("import_messages_canonicalized", msgs, Canonical(msgs), source)
    /\ UNCHANGED <<chunkerVars, backupVars, engineVars>>

\* ORDER BY dt ASC, id ASC on the ISO text of dt
DtLess(a, b) == a[1] < b[1] \/ (a[1] = b[1] /\ a[2] < b[2])

\* (variant) the rows are read in the order of their ids
RowBeforeById(tbl, i, j) == i < j

RowBefore(tbl, i, j) ==
    DtLess(tbl[i].dt, tbl[j].dt) \/ (tbl[i].dt = tbl[j].dt /\ i < j)

RECURSIVE OrderByDtId(_, _)
OrderByDtId(tbl, ids) ==
    IF ids = {} THEN <<>>
    ELSE LET i == CHOOSE k \in ids : \A j \in ids \ {k} : RowBefore(tbl, k, j)
         IN <<tbl[i]>> \o OrderByDtId(tbl, ids \ {i})

\* (variant) the rebuilt row stores the normalized text under the key of the
\* stored text
RebuildRowRawKey(r, me, other) ==
    LET minute == _dt_minute(fromisoformat(r.dt))
        norm == normalize_text_for_dedup(r.text)
    IN [dt |-> r.dt, dt_minute |-> minute,
        sender |-> _canonicalize_sender(r.sender, me, other),
        text |-> norm, norm_text |-> norm,
        dedup_key |-> _dedup_key(minute, r.text), source |-> r.source]

\* (variant) the key of the rebuilt row depends on its sender
RebuildRowSenderKey(r, me, other) ==
    LET minute == _dt_minute(fromisoformat(r.dt))
        norm == normalize_text_for_dedup(r.text)
        sender == _canonicalize_sender(r.sender, me, other)
    IN [dt |-> r.dt, dt_minute |-> minute, sender |-> sender,
        text |-> r.text, norm_text |-> norm,
        dedup_key |-> _dedup_key(minute, norm) \o <<10>> \o sender, source |-> r.source]

\* The row normalize_db_senders_and_dedup rebuilds from a stored row.
RebuildRow(r, me, other) ==
    LET minute == _dt_minute(fromisoformat(r.dt))
        norm == normalize_text_for_dedup(r.text)
    IN [dt |-> r.dt, dt_minute |-> minute,
        sender |-> _canonicalize_sender(r.sender, me, other),
        text |-> r.text, norm_text |-> norm,
        dedup_key |-> _dedup_key(minute, norm), source |-> r.source]

RECURSIVE RebuildLoop(_, _, _, _, _)
RebuildLoop(new, rows, me, other, outcomes) ==
    IF rows = <<>> THEN [table |-> new, outcomes |-> outcomes]
    ELSE LET r == InsertOrIgnore(new, RebuildRow(Head(rows), me, other))
         IN RebuildLoop(r.table, Tail(rows), me, other, Append(outcomes, r.rowcount))

normalize_db_senders_and_dedup ==
    LET rows == OrderByDtId(messages, 1..Len(messages))
        r == RebuildLoop(<<>>, rows, me_sender, other_sender, <<>>)
        kept == Count(r.outcomes, 1)
        dropped == Count(r.outcomes, 0)
        \* history: the operation before this one was a rebuild too
        again == lastOp.op = "normalize_db_senders_and_dedup"
    IN /\ messages' = r.table
       /\ lastOp' = [op |-> "normalize_db_senders_and_dedup", msgs |-> <<>>,
                     source |-> "", before |-> messages, outcomes |-> r.outcomes,
                     result |-> [kept |-> kept, dropped |-> dropped,
                                 total |-> kept + dropped],
                     repeat |-> FALSE, again |-> again,
                     first |-> IF again THEN lastOp.result ELSE NoResult,
                     firstBefore |-> IF again THEN lastOp.before ELSE <<>>]
       /\ UNCHANGED <<chunkerVars, backupVars, engineVars>>

\* init_db on a new database file: an empty messages table.
StorageInit ==
    /\ messages = <<>>
    /\ lastOp = [op |-> "none", msgs |-> <<>>, source |-> "", before |-> <<>>,
                 outcomes |-> <<>>, result |-> NoResult, repeat |-> FALSE, again |-> FALSE,
                 first |-> NoResult, firstBefore |-> <<>>]

\* A row of a database written before the present dedup key: the stored key
\* is the row's own (dt, sender, text), so that stored keys are UNIQUE while
\* the keys the rebuild computes may coincide.
LegacyRow(dt, sender, row_text) ==
    LET row == ImportRow([dt |-> dt, sender |-> sender, text |-> row_text], "old")
    IN [row EXCEPT !.dedup_key = <<dt, 0>> \o sender \o <<0>> \o row_text]

\* "a" from M at 0:00:00, "a " from X and from M at 0:00:30 (the key of the
\* first), "a" from X at 0:00:00 and at 0:01:00
LegacyRows ==
    { LegacyRow(0, me_sender, <<97>>), LegacyRow(30, <<88>>, <<97, 32>>),
      LegacyRow(30, me_sender, <<97, 32>>), LegacyRow(0, <<88>>, <<97>>),
      LegacyRow(60, <<88>>, <<97>>) }

\* the tables of such a database, in any order of insertion
LegacyTables ==
    { tbl \in SeqsUpTo(LegacyRows, MaxLegacy) :
        \A i, j \in 1..Len(tbl) : i # j => tbl[i] # tbl[j] }

LegacyInit ==
    /\ messages \in LegacyTables
    /\ lastOp = [op |-> "none", msgs |-> <<>>, source |-> "", before |-> <<>>,
                 outcomes |-> <<>>, result |-> NoResult, repeat |-> FALSE, again |-> FALSE,
                 first |-> NoResult, firstBefore |-> <<>>]

\* rebuilds of such a database and the imports of the import route, one
\* message at a time
LegacyNext ==
    \/ normalize_db_senders_and_dedup
    \/ \E msg \in KakaoMessages, source \in Sources : import_messages(<<msg>>, source)
    \/ \E msg \in KakaoMessages, source \in Sources :
          import_messages_canonicalized(<<msg>>, source)

StorageNext ==
    \/ \E msgs \in MessageLists, source \in Sources : import_messages(msgs, source)
    \/ \E msgs \in MessageLists, source \in Sources :
          import_messages_canonicalized(msgs, source)
    \/ normalize_db_senders_and_dedup


----------------------------------------------------------------------------
(* backup.py: UTF-8 and line helpers used by the chunker and the client.   *)

\* ch.encode("utf-8") for one code point
Utf8Char(ch) ==
    IF ch < 128 THEN <<ch>>
    ELSE IF ch < 2048 THEN <<192 + (ch \div 64), 128 + (ch % 64)>>
    ELSE IF ch < 65536
         THEN <<224 + (ch \div 4096), 128 + ((ch \div 64) % 64), 128 + (ch % 64)>>
    ELSE <<240 + (ch \div 262144), 128 + ((ch \div 4096) % 64),
           128 + ((ch \div 64) % 64), 128 + (ch % 64)>>

\* str.encode("utf-8"): the encodings of the code points, concatenated
RECURSIVE Utf8Encode(_)
Utf8Encode(s) ==
    IF s = <<>> THEN <<>>
    ELSE IF Len(s) = 1 THEN Utf8Char(s[1])
    ELSE LET mid == Len(s) \div 2
         IN Utf8Encode(SubSeq(s, 1, mid)) \o Utf8Encode(SubSeq(s, mid + 1, Len(s)))

\* len(s.encode("utf-8"))
Utf8Size(s) == Len(Utf8Encode(s))

IsContinuation(b) == b >= 128 /\ b < 192

\* the number of continuation bytes a lead byte announces (0 for ASCII and
\* for a byte that is no lead byte)
Utf8Need(b1) ==
    IF b1 >= 194 /\ b1 < 224 THEN 1
    ELSE IF b1 >= 224 /\ b1 < 240 THEN 2
    ELSE IF b1 >= 240 /\ b1 < 245 THEN 3
    ELSE 0

\* byte i continues the sequence opened by a lead byte at most 3 bytes back
Utf8Consumed(b, i) ==
    /\ IsContinuation(b[i])
    /\ \E j \in (i - 3)..(i - 1) :
          /\ j >= 1
          /\ Utf8Need(b[j]) >= i - j
          /\ \A k \in (j + 1)..i : IsContinuation(b[k])

\* the code point decoded at start position i; U+FFFD for a malformed one
Utf8CodePoint(b, i) ==
    LET b1 == b[i]
        need == Utf8Need(b1)
        complete == /\ i + need <= Len(b)
                    /\ \A k \in (i + 1)..(i + need) : IsContinuation(b[k])
    IN IF b1 < 128 THEN b1
       ELSE IF need = 0 \/ ~complete THEN 65533
       ELSE IF need = 1 THEN (b1 - 192) * 64 + (b[i + 1] - 128)
       ELSE IF need = 2
            THEN (b1 - 224) * 4096 + (b[i + 1] - 128) * 64 + (b[i + 2] - 128)
       ELSE (b1 - 240) * 262144 + (b[i + 1] - 128) * 4096
            + (b[i + 2] - 128) * 64 + (b[i + 3] - 128)

\* bytes.decode("utf-8", errors="replace"), over the positions lo..hi of b:
\* every byte that no lead byte consumed decodes to one code point
RECURSIVE Utf8DecodeRange(_, _, _)
Utf8DecodeRange(b, lo, hi) ==
    IF lo > hi THEN <<>>
    ELSE IF lo = hi
         THEN (IF Utf8Consumed(b, lo) THEN <<>> ELSE <<Utf8CodePoint(b, lo)>>)
    ELSE LET mid == (lo + hi) \div 2
         IN Utf8DecodeRange(b, lo, mid) \o Utf8DecodeRange(b, mid + 1, hi)

Utf8Decode(b) == Utf8DecodeRange(b, 1, Len(b))

\* the line boundaries of str.splitlines
IsLineBreak(c) == c \in {10, 11, 12, 13, 28, 29, 30, 133, 8232, 8233}

\* The positions of s at which a line ends: the last code point of a line
\* boundary ("\r\n" is one boundary), and the end of an unterminated last line.
LineEnds(s) ==
    {i \in 1..Len(s) :
        \/ IsLineBreak(s[i]) /\ ~(s[i] = 13 /\ i < Len(s) /\ s[i + 1] = 10)
        \/ i = Len(s)}

\* the length of the line boundary that ends at position e (0 if none)
BoundaryLen(s, e) ==
    IF ~IsLineBreak(s[e]) THEN 0
    ELSE IF s[e] = 10 /\ e > 1 /\ s[e - 1] = 13 THEN 2
    ELSE 1

\* str.splitlines(keepends)
splitlines(s, keepends) ==
    LET ends == LineEnds(s)
        EndOf(j) == CHOOSE e \in ends : Cardinality({x \in ends : x <= e}) = j
        StartOf(j) == IF j = 1 THEN 1 ELSE EndOf(j - 1) + 1
    IN [j \in 1..Cardinality(ends) |->
           SubSeq(s, StartOf(j),
                  EndOf(j) - (IF keepends THEN 0 ELSE BoundaryLen(s, EndOf(j))))]

----------------------------------------------------------------------------
(* backup.py: _split_text_chunks_by_bytes.                                 *)

\* flush_current(): the accumulated lines become one chunk
flush_current(st) ==
    IF st.current_lines # <<>>
    THEN [chunks |-> Append(st.chunks, Concat(st.current_lines)),
          current_lines |-> <<>>, current_size |-> 0]
    ELSE st

\* append_long_line_segments(line): the loop over the code points of line
RECURSIVE LongLineLoop(_, _, _, _, _)
LongLineLoop(out, line, segment_chars, segment_size, maxb) ==
    IF line = <<>>
    THEN (IF segment_chars # <<>> THEN Append(out, segment_chars) ELSE out)
    ELSE LET ch == Head(line)
             ch_size == Len(Utf8Char(ch))
         IN IF segment_chars # <<>> /\ segment_size + ch_size > maxb
            THEN LongLineLoop(Append(out, segment_chars), Tail(line), <<ch>>,
                              ch_size, maxb)
            ELSE LongLineLoop(out, Tail(line), Append(segment_chars, ch),
                              segment_size + ch_size, maxb)

\* (variant) the last, unfinished segment of the line is not appended
RECURSIVE LongLineLoopNoTail(_, _, _, _, _)
LongLineLoopNoTail(out, line, segment_chars, segment_size, maxb) ==
    IF line = <<>> THEN out
    ELSE LET ch == Head(line)
             ch_size == Len(Utf8Char(ch))
         IN IF segment_chars # <<>> /\ segment_size + ch_size > maxb
            THEN LongLineLoopNoTail(Append(out, segment_chars), Tail(line), <<ch>>,
                                    ch_size, maxb)
            ELSE LongLineLoopNoTail(out, Tail(line), Append(segment_chars, ch),
                                    segment_size + ch_size, maxb)

append_long_line_segments_no_tail(out, line, maxb) ==
    LongLineLoopNoTail(out, line, <<>>, 0, maxb)

append_long_line_segments(out, line, maxb) ==
    LongLineLoop(out, line, <<>>, 0, maxb)

\* (variant) a line is added to the current chunk without the size check
SplitLineStepNoFlush(st, line, maxb) ==
    LET line_size == Utf8Size(line)
    IN IF line_size > maxb
       THEN LET f == flush_current(st)
            IN [f EXCEPT !.chunks = append_long_line_segments(f.chunks, line, maxb)]
       ELSE [st EXCEPT !.current_lines = Append(st.current_lines, line),
                       !.current_size = st.current_size + line_size]

\* one iteration of "for line in text.splitlines(keepends=True)"
SplitLineStep(st, line, maxb) ==
    LET line_size == Utf8Size(line)
    IN IF line_size > maxb
       THEN LET f == flush_current(st)
            IN [f EXCEPT !.chunks = append_long_line_segments(f.chunks, line, maxb)]
       ELSE LET f == IF st.current_lines # <<>> /\ st.current_size + line_size > maxb
                     THEN flush_current(st) ELSE st
            IN [f EXCEPT !.current_lines = Append(f.current_lines, line),
                         !.current_size = f.current_size + line_size]

RECURSIVE SplitLoop(_, _, _)
SplitLoop(st, lines, maxb) ==
    IF lines = <<>> THEN st
    ELSE SplitLoop(SplitLineStep(st, Head(lines), maxb), Tail(lines), maxb)

\* (variant) no guard for the empty text and no fallback to [""]
_split_text_chunks_unguarded(t, maxb) ==
    IF maxb <= 0 THEN <<t>>
    ELSE LET st0 == [chunks |-> <<>>, current_lines |-> <<>>, current_size |-> 0]
         IN flush_current(SplitLoop(st0, splitlines(t, TRUE), maxb)).chunks

_split_text_chunks_by_bytes(t, maxb) ==
    IF maxb <= 0 THEN <<t>>
    ELSE IF t = <<>> THEN << <<>> >>
    ELSE LET st0 == [chunks |-> <<>>, current_lines |-> <<>>, current_size |-> 0]
             st == flush_current(SplitLoop(st0, splitlines(t, TRUE), maxb))
         IN IF st.chunks = <<>> THEN << <<>> >> ELSE st.chunks

\* Code points of the chunker payloads: "a", LF, CR, U+00E9 (2 bytes),
\* U+D55C (3 bytes) and U+1F600 (4 bytes).
ChunkAlphabet == {97, 10, 13, 233, 54620, 128512}

ChunkerInit ==
    /\ text \in SeqsUpTo(ChunkAlphabet, MaxLen)
    /\ max_bytes \in (-1)..MaxBytes
    /\ chunks = [returned |-> FALSE, list |-> <<>>]

\* a call of _split_text_chunks_by_bytes(text, max_bytes)
SplitCall ==
    /\ ~chunks.returned
    /\ chunks' = [returned |-> TRUE,
                  list |-> _split_text_chunks_by_bytes(text, max_bytes)]
    /\ UNCHANGED <<text, max_bytes, storageVars, backupVars, engineVars>>

\* the chunker at rest, for the specifications of the other components
ChunkerIdle ==
    /\ text = <<>>
    /\ max_bytes = 0
    /\ chunks = [returned |-> FALSE, list |-> <<>>]


----------------------------------------------------------------------------
(* backup.py: the chunk manifest (ManifestCodec).                          *)

\* "# CHAT_BACKUP_PARTS v1"
_CHAT_PARTS_HEADER ==
    <<35, 32, 67, 72, 65, 84, 95, 66, 65, 67, 75, 85, 80, 95, 80, 65, 82, 84,
      83, 32, 118, 49>>

\* json.dumps of a str with ensure_ascii=False: quotes, backslashes and the
\* control characters LF, CR and TAB are escaped
RECURSIVE JsonEscape(_)
JsonEscape(s) ==
    IF s = <<>> THEN <<>>
    ELSE LET c == Head(s)
             e == IF c = 34 THEN <<92, 34>>
                  ELSE IF c = 92 THEN <<92, 92>>
                  ELSE IF c = 10 THEN <<92, 110>>
                  ELSE IF c = 13 THEN <<92, 114>>
                  ELSE IF c = 9 THEN <<92, 116>>
                  ELSE <<c>>
         IN e \o JsonEscape(Tail(s))

\* (variant) the string is quoted without escaping
JsonStringRaw(s) == <<34>> \o s \o <<34>>

JsonString(s) == <<34>> \o JsonEscape(s) \o <<34>>

\* ", ".join of the quoted items
RECURSIVE JsonItems(_)
JsonItems(items) ==
    IF items = <<>> THEN <<>>
    ELSE IF Len(items) = 1 THEN JsonString(items[1])
    ELSE JsonString(Head(items)) \o <<44, 32>> \o JsonItems(Tail(items))

\* json.dumps({"parts": part_paths}, ensure_ascii=False)
JsonDumpsParts(part_paths) ==
    <<123, 34, 112, 97, 114, 116, 115, 34, 58, 32, 91>>
    \o JsonItems(part_paths) \o <<93, 125>>

_build_chat_parts_manifest(part_paths) ==
    _CHAT_PARTS_HEADER \o <<10>> \o JsonDumpsParts(part_paths) \o <<10>>

\* json.loads, for documents made of objects, arrays, strings, integers and
\* the literals null, true and false.  A parse yields [ok, v, rest]; values
\* are tagged records.
JsonWs(c) == c \in {32, 9, 10, 13}

RECURSIVE JsonSkipWs(_)
JsonSkipWs(s) ==
    IF s # <<>> /\ JsonWs(Head(s)) THEN JsonSkipWs(Tail(s)) ELSE s

JsonNull == [t |-> "null", v |-> <<>>]

JsonFail == [ok |-> FALSE, v |-> JsonNull, rest |-> <<>>]

IsDigit(c) == c >= 48 /\ c <= 57

HasPrefix(s, pre) == Len(s) >= Len(pre) /\ SubSeq(s, 1, Len(pre)) = pre

DropN(s, n) == SubSeq(s, n + 1, Len(s))

\* the body of a string literal, after the opening quote
RECURSIVE JsonParseChars(_, _)
JsonParseChars(s, acc) ==
    IF s = <<>> THEN JsonFail
    ELSE LET c == Head(s)
         IN IF c = 34 THEN [ok |-> TRUE, v |-> [t |-> "str", v |-> acc], rest |-> Tail(s)]
            ELSE IF c = 92
                 THEN IF Len(s) < 2 THEN JsonFail
                      ELSE LET d == s[2]
                               u == IF d = 34 THEN <<34>>
                                    ELSE IF d = 92 THEN <<92>>
                                    ELSE IF d = 47 THEN <<47>>
                                    ELSE IF d = 110 THEN <<10>>
                                    ELSE IF d = 114 THEN <<13>>
                                    ELSE IF d = 116 THEN <<9>>
                                    ELSE <<>>
                           IN IF u = <<>> THEN JsonFail
                              ELSE JsonParseChars(DropN(s, 2), acc \o u)
            ELSE IF c < 32 THEN JsonFail
            ELSE JsonParseChars(Tail(s), Append(acc, c))

RECURSIVE JsonParseDigits(_, _)
JsonParseDigits(s, n) ==
    IF s # <<>> /\ IsDigit(Head(s))
    THEN JsonParseDigits(Tail(s), n * 10 + (Head(s) - 48))
    ELSE [ok |-> TRUE, v |-> [t |-> "int", v |-> n], rest |-> s]

RECURSIVE JsonParseValue(_)
RECURSIVE JsonParseElements(_, _)
RECURSIVE JsonParseMembers(_, _)

JsonParseValue(s0) ==
    LET s == JsonSkipWs(s0)
    IN IF s = <<>> THEN JsonFail
       ELSE IF Head(s) = 34 THEN JsonParseChars(Tail(s), <<>>)
       ELSE IF Head(s) = 91
            THEN LET r == JsonSkipWs(Tail(s))
                 IN IF r # <<>> /\ Head(r) = 93
                    THEN [ok |-> TRUE, v |-> [t |-> "arr", v |-> <<>>], rest |-> Tail(r)]
                    ELSE JsonParseElements(r, <<>>)
       ELSE IF Head(s) = 123
            THEN LET r == JsonSkipWs(Tail(s))
                 IN IF r # <<>> /\ Head(r) = 125
                    THEN [ok |-> TRUE, v |-> [t |-> "obj", v |-> <<>>], rest |-> Tail(r)]
                    ELSE JsonParseMembers(r, <<>>)
       ELSE IF HasPrefix(s, <<110, 117, 108, 108>>)
            THEN [ok |-> TRUE, v |-> [t |-> "null", v |-> <<>>], rest |-> DropN(s, 4)]
       ELSE IF HasPrefix(s, <<116, 114, 117, 101>>)
            THEN [ok |-> TRUE, v |-> [t |-> "true", v |-> <<>>], rest |-> DropN(s, 4)]
       ELSE IF HasPrefix(s, <<102, 97, 108, 115, 101>>)
            THEN [ok |-> TRUE, v |-> [t |-> "false", v |-> <<>>], rest |-> DropN(s, 5)]
       ELSE IF IsDigit(Head(s))
            THEN IF Head(s) = 48 /\ Len(s) >= 2 /\ IsDigit(s[2]) THEN JsonFail
                 ELSE JsonParseDigits(s, 0)
       ELSE JsonFail

\* the elements of an array, after "[" and up to "]"
JsonParseElements(s, acc) ==
    LET e == JsonParseValue(s)
    IN IF ~e.ok THEN JsonFail
       ELSE LET r == JsonSkipWs(e.rest)
            IN IF r = <<>> THEN JsonFail
               ELSE IF Head(r) = 93
                    THEN [ok |-> TRUE, v |-> [t |-> "arr", v |-> Append(acc, e.v)],
                          rest |-> Tail(r)]
               ELSE IF Head(r) = 44 THEN JsonParseElements(Tail(r), Append(acc, e.v))
               ELSE JsonFail

\* the members of an object, after "{" and up to "}"
JsonParseMembers(s0, acc) ==
    LET s == JsonSkipWs(s0)
    IN IF s = <<>> \/ Head(s) # 34 THEN JsonFail
       ELSE LET k == JsonParseChars(Tail(s), <<>>)
            IN IF ~k.ok THEN JsonFail
               ELSE LET c == JsonSkipWs(k.rest)
                    IN IF c = <<>> \/ Head(c) # 58 THEN JsonFail
                       ELSE LET e == JsonParseValue(Tail(c))
                            IN IF ~e.ok THEN JsonFail
                               ELSE LET r == JsonSkipWs(e.rest)
                                        m == Append(acc, <<k.v.v, e.v>>)
                                    IN IF r = <<>> THEN JsonFail
                                       ELSE IF Head(r) = 125
                                            THEN [ok |-> TRUE,
                                                  v |-> [t |-> "obj", v |-> m],
                                                  rest |-> Tail(r)]
                                       ELSE IF Head(r) = 44
                                            THEN JsonParseMembers(Tail(r), m)
                                       ELSE JsonFail

\* json.loads(body): the value, or JSONDecodeError
json_loads(body) ==
    LET r == JsonParseValue(body)
    IN IF r.ok /\ JsonSkipWs(r.rest) = <<>> THEN [ok |-> TRUE, v |-> r.v]
       ELSE [ok |-> FALSE, v |-> JsonNull]

\* dict.get(key): the last member with that key, else None
RECURSIVE DictGet(_, _)
DictGet(members, key) ==
    IF members = <<>> THEN JsonNull
    ELSE LET last == members[Len(members)]
         IN IF last[1] = key THEN last[2]
            ELSE DictGet(SubSeq(members, 1, Len(members) - 1), key)

RECURSIVE DecimalDigits(_)
DecimalDigits(n) ==
    IF n < 10 THEN <<48 + n>> ELSE Append(DecimalDigits(n \div 10), 48 + (n % 10))

\* str(item or ""): a falsy item gives "", a string itself, an integer its digits
ItemStr(item) ==
    IF item.t = "str" THEN item.v
    ELSE IF item.t = "int" THEN (IF item.v = 0 THEN <<>> ELSE DecimalDigits(item.v))
    ELSE IF item.t = "true" THEN <<84, 114, 117, 101>>
    ELSE IF item.t \in {"null", "false"} THEN <<>>
    ELSE IF item.v = <<>> THEN <<>>
    ELSE IF item.t = "arr" THEN <<91, 8230, 93>>
    ELSE <<123, 8230, 125>>

RECURSIVE LStripSlash(_)
LStripSlash(s) ==
    IF s # <<>> /\ Head(s) = 47 THEN LStripSlash(Tail(s)) ELSE s

RECURSIVE ManifestPaths(_)
ManifestPaths(raw_parts) ==
    IF raw_parts = <<>> THEN <<>>
    ELSE LET path == LStripSlash(Strip(ItemStr(Head(raw_parts))))
         IN (IF path # <<>> THEN <<path>> ELSE <<>>) \o ManifestPaths(Tail(raw_parts))

RECURSIVE JoinLines(_)
JoinLines(lines) ==
    IF lines = <<>> THEN <<>>
    ELSE IF Len(lines) = 1 THEN lines[1]
    ELSE Head(lines) \o <<10>> \o JoinLines(Tail(lines))

\* _parse_chat_parts_manifest: [kind |-> "parts", parts], [kind |-> "none"]
\* for a None return, or [kind |-> "raise"] when payload.get fails because
\* the JSON document is not an object.
_parse_chat_parts_manifest(t) ==
    LET lines == splitlines(t, FALSE)
        NoParts == [kind |-> "none", parts |-> <<>>]
    IN IF lines = <<>> \/ Strip(lines[1]) # _CHAT_PARTS_HEADER THEN NoParts
       ELSE LET body == Strip(JoinLines(Tail(lines)))
            IN IF body = <<>> THEN NoParts
               ELSE LET payload == json_loads(body)
                    IN IF ~payload.ok THEN NoParts
                       ELSE IF payload.v.t # "obj"
                            THEN [kind |-> "raise", parts |-> <<>>]
                       ELSE LET raw_parts == DictGet(payload.v.v, <<112, 97, 114, 116, 115>>)
                            IN IF raw_parts.t # "arr" \/ raw_parts.v = <<>> THEN NoParts
                               ELSE LET parts == ManifestPaths(raw_parts.v)
                                    IN IF parts = <<>> THEN NoParts
                                       ELSE [kind |-> "parts", parts |-> parts]


\* Code points of the path lists handed to the codec: "p", " ", "/", the
\* double quote and U+2028 (LINE SEPARATOR).
ManifestAlphabet == {112, 32, 47, 34, 8232}

ManifestPathValues == SeqsUpTo(ManifestAlphabet, MaxPathLen)

\* lists of one and of two paths
ManifestPathLists ==
    {<<a>> : a \in ManifestPathValues}
        \cup {<<a, b>> : a \in ManifestPathValues, b \in ManifestPathValues}

CodecInit ==
    mf \in {[part_paths |-> l, called |-> FALSE, manifest |-> <<>>,
             parsed |-> [kind |-> "none", parts |-> <<>>]] : l \in ManifestPathLists}

\* _parse_chat_parts_manifest(_build_chat_parts_manifest(part_paths))
CodecCall ==
    /\ ~mf.called
    /\ LET manifest == _build_chat_parts_manifest(mf.part_paths)
       IN mf' = [mf EXCEPT !.called = TRUE, !.manifest = manifest,
                           !.parsed = _parse_chat_parts_manifest(manifest)]
    /\ UNCHANGED <<storageVars, chunkerVars, backupVars, syncVars, rebuildVars, schedulerVars, guardVars, starterVars, importVars>>

\* the codec at rest, for the specifications of the other components
CodecIdle ==
    mf = [part_paths |-> <<>>, called |-> FALSE, manifest |-> <<>>,
          parsed |-> [kind |-> "none", parts |-> <<>>]]

----------------------------------------------------------------------------
(* backup.py: RemoteStoreClient, chat upload and chat download.            *)

\* cfg.prefix ("p") and the remote paths derived from it
prefix == <<112>>

CanonicalPath == prefix \o <<46, 116, 120, 116>>

\* f"{idx:03d}"
ZeroPad3(idx) ==
    LET d == DecimalDigits(idx)
    IN IF Len(d) = 1 THEN <<48, 48>> \o d ELSE IF Len(d) = 2 THEN <<48>> \o d ELSE d

\* (variant) the part path does not carry the chunk number
PartPathUnnumbered(idx) ==
    prefix \o <<46, 112, 97, 114, 116>> \o <<46, 116, 120, 116>>

\* f"{prefix}.part{idx:03d}.txt"
PartPath(idx) ==
    prefix \o <<46, 112, 97, 114, 116>> \o ZeroPad3(idx) \o <<46, 116, 120, 116>>

\* The chunk size limits of _get_chat_chunk_bytes, scaled down by the model:
\* the default (700_000 in the code) and the floor (20_000 in the code).  The
\* floor stays above the 4 bytes of the widest code point, as in the code.
DefaultChunkBytes == 6
MinChunkBytes == 4

Max(a, b) == IF a >= b THEN a ELSE b

\* _get_chat_chunk_bytes on the value of CHAT_APP_GITHUB_CHAT_CHUNK_BYTES
_get_chat_chunk_bytes(raw) ==
    IF raw.kind = "unset" THEN DefaultChunkBytes
    ELSE IF raw.kind = "invalid" THEN DefaultChunkBytes
    ELSE IF raw.value <= 0 THEN DefaultChunkBytes
    ELSE Max(MinChunkBytes, raw.value)

ChunkEnvValues ==
    { [kind |-> "unset", value |-> 0], [kind |-> "invalid", value |-> 0],
      [kind |-> "int", value |-> 0], [kind |-> "int", value |-> 3],
      [kind |-> "int", value |-> 5] }

\* _github_get_file_sha: the blob id of the file at the branch head (the id
\* is modelled by the content it names), None on 404
_github_get_file_sha(path) ==
    IF path \in DOMAIN remote THEN [found |-> TRUE, sha |-> remote[path]] ELSE NoSha

\* (variant) the write does not depend on the sha read before it
PutAcceptedUnchecked(path, sha) == TRUE

\* The PUT of _github_put_file is accepted when the sha it carries names the
\* blob now at the path (no sha for a path that does not exist).
PutAccepted(path, sha) == sha = _github_get_file_sha(path)

RemoteWrite(rem, path, bytes) ==
    [q \in (DOMAIN rem) \cup {path} |-> IF q = path THEN bytes ELSE rem[q]]

\* _github_get_file_text at the branch head: None on 404
_github_get_file_text(path) ==
    IF path \in DOMAIN remote
    THEN Found(Utf8Decode(remote[path]))
    ELSE None

UpIdle ==
    [pc |-> "idle", chat_plain |-> <<>>, chunk_bytes |-> 0, stage |-> "",
     chunks |-> <<>>, idx |-> 0, part_paths |-> <<>>, sha |-> NoSha,
     writes |-> <<>>]

\* path and content of the _github_put_file call the upload is at
UpTarget ==
    IF up.stage = "part" THEN PartPath(up.idx) ELSE CanonicalPath

UpContent ==
    IF up.stage = "single" THEN up.chat_plain
    ELSE IF up.stage = "part" THEN up.chunks[up.idx]
    ELSE _build_chat_parts_manifest(up.part_paths)

\* (variant) a payload of exactly chunk_bytes is chunked as well
FitsSingleFileStrict(total_size, chunk_bytes) == total_size < chunk_bytes

\* total_size <= chunk_bytes: the payload goes to the canonical path as it is
FitsSingleFile(total_size, chunk_bytes) == total_size <= chunk_bytes

\* _upload_chat_backup up to its first remote call
UploadStart(chat_plain) ==
    /\ up.pc = "idle"
    /\ LET chunk_bytes == _get_chat_chunk_bytes(chunkEnv)
           total_size == Utf8Size(chat_plain)
       IN up' = IF FitsSingleFile(total_size, chunk_bytes)
                THEN [UpIdle EXCEPT !.pc = "get_sha", !.chat_plain = chat_plain,
                                    !.chunk_bytes = chunk_bytes, !.stage = "single"]
                ELSE [UpIdle EXCEPT !.pc = "get_sha", !.chat_plain = chat_plain,
                                    !.chunk_bytes = chunk_bytes, !.stage = "part",
                                    !.idx = 1,
                                    !.chunks = _split_text_chunks_by_bytes(
                                                   chat_plain, chunk_bytes)]
    /\ UNCHANGED <<chunkEnv, remote, dl, lastUpload, storageVars, chunkerVars, engineVars>>

\* _github_put_file, first request: read the revision id of the path
PutGetSha ==
    /\ up.pc = "get_sha"
    /\ up' = [up EXCEPT !.pc = "put", !.sha = _github_get_file_sha(UpTarget)]
    /\ UNCHANGED <<chunkEnv, remote, dl, lastUpload, storageVars, chunkerVars, engineVars>>

\* where _upload_chat_backup goes after a successful _github_put_file
AfterPut(u, path) ==
    IF u.stage = "part"
    THEN IF u.idx < Len(u.chunks)
         THEN [u EXCEPT !.pc = "get_sha", !.idx = u.idx + 1, !.sha = NoSha,
                        !.part_paths = Append(u.part_paths, path),
                        !.writes = Append(u.writes, path)]
         ELSE [u EXCEPT !.pc = "get_sha", !.stage = "manifest", !.sha = NoSha,
                        !.part_paths = Append(u.part_paths, path),
                        !.writes = Append(u.writes, path)]
    ELSE [u EXCEPT !.pc = "done", !.sha = NoSha, !.writes = Append(u.writes, path)]

\* _github_put_file, second request: the PUT, accepted by the remote
PutRequest ==
    /\ up.pc = "put"
    /\ PutAccepted(UpTarget, up.sha)
    /\ remote' = RemoteWrite(remote, UpTarget, Utf8Encode(UpContent))
    /\ up' = AfterPut(up, UpTarget)
    /\ UNCHANGED <<chunkEnv, dl, lastUpload, storageVars, chunkerVars, engineVars>>

\* _upload_chat_backup returns
UploadReturn ==
    /\ up.pc = "done"
    /\ lastUpload' = [completed |-> TRUE, chat_plain |-> up.chat_plain]
    /\ up' = UpIdle
    /\ UNCHANGED <<chunkEnv, remote, dl, storageVars, chunkerVars, engineVars>>

DlIdle ==
    [pc |-> "idle", raw |-> None, part_paths |-> <<>>, idx |-> 0,
     parts |-> <<>>, result |-> None]


\* _download_chat_backup up to and including the parse of the canonical file
DownloadStart ==
    /\ dl.pc = "idle"
    /\ LET raw == _github_get_file_text(CanonicalPath)
       IN IF raw = None
          THEN dl' = [DlIdle EXCEPT !.pc = "done"]
          ELSE LET m == _parse_chat_parts_manifest(raw.text)
               IN dl' = IF m.kind = "raise"
                        THEN [DlIdle EXCEPT !.pc = "raised", !.raw = raw]
                        ELSE IF m.kind = "none"
                        THEN [DlIdle EXCEPT !.pc = "done", !.raw = raw, !.result = raw]
                        ELSE [DlIdle EXCEPT !.pc = "parts", !.raw = raw, !.idx = 1,
                                            !.part_paths = m.parts]
    /\ UNCHANGED <<chunkEnv, remote, up, lastUpload, storageVars, chunkerVars, engineVars>>

\* (variant) a missing chunk is skipped and the loop goes on
DownloadPartStepSkipMissing(d, part_text) ==
    LET parts == IF part_text = None THEN d.parts ELSE Append(d.parts, part_text.text)
    IN IF d.idx < Len(d.part_paths)
       THEN [d EXCEPT !.idx = d.idx + 1, !.parts = parts]
       ELSE [d EXCEPT !.pc = "done", !.parts = parts, !.result = Found(Concat(parts))]

\* one iteration of "for part_path in part_paths" of _download_chat_backup
DownloadPartStep(d, part_text) ==
    IF part_text = None THEN [d EXCEPT !.pc = "done", !.result = None]
    ELSE LET parts == Append(d.parts, part_text.text)
         IN IF d.idx < Len(d.part_paths)
            THEN [d EXCEPT !.idx = d.idx + 1, !.parts = parts]
            ELSE [d EXCEPT !.pc = "done", !.parts = parts,
                           !.result = Found(Concat(parts))]

DownloadPart ==
    /\ dl.pc = "parts"
    /\ dl' = DownloadPartStep(dl, _github_get_file_text(dl.part_paths[dl.idx]))
    /\ UNCHANGED <<chunkEnv, remote, up, lastUpload, storageVars, chunkerVars, engineVars>>

\* _download_chat_backup returns (or raises) to its caller
DownloadReturn ==
    /\ dl.pc \in {"done", "raised"}
    /\ dl' = DlIdle
    /\ UNCHANGED <<chunkEnv, remote, up, lastUpload, storageVars, chunkerVars, engineVars>>

\* Another user of the remote repository deletes one chunk file.
RemoteDeletePart ==
    /\ up.pc = "idle"
    /\ dl.pc = "idle"
    /\ \E path \in DOMAIN remote :
          /\ path # CanonicalPath
          /\ remote' = [q \in (DOMAIN remote) \ {path} |-> remote[q]]
    /\ UNCHANGED <<chunkEnv, up, dl, lastUpload, storageVars, chunkerVars, engineVars>>

\* Code points of the uploaded chat payloads: U+00E9 (2 bytes), U+D55C (3 bytes)
UpAlphabet == {233, 54620}

UploadPayloads == SeqsUpTo(UpAlphabet, MaxUpLen)

EmptyRemote == [q \in {} |-> <<>>]

BackupInit ==
    /\ chunkEnv \in ChunkEnvValues
    /\ remote = EmptyRemote
    /\ up = UpIdle
    /\ dl = DlIdle
    /\ lastUpload = [completed |-> FALSE, chat_plain |-> <<>>]

\* the backup engine at rest, for the specifications of the other components
BackupIdle ==
    /\ chunkEnv = [kind |-> "unset", value |-> 0]
    /\ remote = EmptyRemote
    /\ up = UpIdle
    /\ dl = DlIdle
    /\ lastUpload = [completed |-> FALSE, chat_plain |-> <<>>]

\* uploads and downloads of one process, one call at a time
BackupNext ==
    \/ dl.pc = "idle" /\ \E chat_plain \in UploadPayloads : UploadStart(chat_plain)
    \/ PutGetSha
    \/ PutRequest
    \/ UploadReturn
    \/ up.pc = "idle" /\ DownloadStart
    \/ DownloadPart
    \/ DownloadReturn

\* uploads of one process one after another, and the downloads of a reader
\* that runs at any time, also between two requests of an upload; a download
\* in progress is over before the next upload starts
ConcurrentNext ==
    \/ dl.pc = "idle" /\ \E chat_plain \in UploadPayloads : UploadStart(chat_plain)
    \/ PutGetSha
    \/ PutRequest
    \/ UploadReturn
    \/ DownloadStart
    \/ DownloadPart
    \/ DownloadReturn

\* Code points of a damaged manifest body: "{", "}", "[", "]", "1" and " ".
DamageAlphabet == {123, 125, 91, 93, 49, 32}

\* Canonical files that start with the manifest header and go on with a body
\* that lists no part: empty, no JSON, or JSON without a list of parts.
DamagedManifests ==
    {_CHAT_PARTS_HEADER \o <<10>> \o body : body \in SeqsUpTo(DamageAlphabet, MaxBodyLen)}

\* Another writer of the repository (or an edit by hand) leaves a damaged
\* manifest at the canonical path.
RemoteDamage(damaged) ==
    /\ dl.pc = "idle"
    /\ remote' = [q \in (DOMAIN remote) \cup {CanonicalPath} |->
                     IF q = CanonicalPath THEN damaged ELSE remote[q]]
    /\ UNCHANGED <<chunkEnv, up, dl, lastUpload, storageVars, chunkerVars, engineVars>>

\* downloads of a canonical file that holds a damaged manifest
DamageNext ==
    \/ \E damaged \in DamagedManifests : RemoteDamage(damaged)
    \/ DownloadStart
    \/ DownloadReturn

----------------------------------------------------------------------------
(* backup.py: SyncEngine (maybe_backup_to_github) and its BackupState.     *)

\* the threads that call maybe_backup_to_github: a request handler (after an
\* import or an edit) and the periodic scheduler
Threads == {"request", "scheduler"}

\* f"{prefix}_diary.txt"
DiaryPath == prefix \o <<95, 100, 105, 97, 114, 121, 46, 116, 120, 116>>

\* f"{stamp} | {msg['sender']} | {text}" of a message whose stamp is "0" and
\* whose sender is "a"
ExportLine(msg_text) == <<48, 32, 124, 32, 97, 32, 124, 32>> \o msg_text

\* "\n".join(lines)
RECURSIVE JoinNewline(_)
JoinNewline(lines) ==
    IF lines = <<>> THEN <<>>
    ELSE IF Len(lines) = 1 THEN lines[1]
    ELSE lines[1] \o <<10>> \o JoinNewline(Tail(lines))

\* _export_plain on the messages of the database (each given by its text)
_export_plain(msgs) ==
    LET lines == [i \in 1..Len(msgs) |-> ExportLine(msgs[i])]
    IN IF lines = <<>> THEN <<>> ELSE RStrip(JoinNewline(lines)) \o <<10>>

\* serialize_diary_plain on n entries "1 | t" without body and comments
serialize_diary_plain(n) ==
    LET entry == << <<49, 32, 124, 32, 116>>, <<>> >>
        lines == Concat([i \in 1..n |-> entry])
    IN IF lines = <<>> THEN <<>> ELSE RStrip(JoinNewline(lines)) \o <<10>>

\* _compute_backup_signature: the digest is modelled by the text it is taken
\* of (repo and branch are fixed and left out)
_compute_backup_signature(chat_plain, diary_plain) ==
    prefix \o <<0>> \o chat_plain \o <<0>> \o diary_plain

\* the dict of _load_backup_state: {} has no counts and no signature
EmptyState ==
    [has_counts |-> FALSE, chat_count |-> 0, diary_count |-> 0, signature |-> <<>>]

\* the payload _save_backup_state writes
SavedState(chat_count, diary_count, signature) ==
    [has_counts |-> TRUE, chat_count |-> chat_count, diary_count |-> diary_count,
     signature |-> signature]

\* the counts parsed from a commit message; a message without them gives None
NoCounts == [found |-> FALSE, chat_count |-> 0, diary_count |-> 0]
CommitCounts(chat_count, diary_count) ==
    [found |-> TRUE, chat_count |-> chat_count, diary_count |-> diary_count]

\* _read_latest_remote_counts: the counts in the message of the latest commit
\* of the canonical path; (None, None) when the request fails
_read_latest_remote_counts(ok) == IF ok THEN headCommit ELSE NoCounts

\* (variant) the counts read from the remote are not taken as the baseline
RecoverCountsIgnored(state, rc) == state

\* lines 559-563: a state without counts takes the counts read from the remote
RecoverCounts(state, rc) ==
    IF rc.found
    THEN [state EXCEPT !.has_counts = TRUE, !.chat_count = rc.chat_count,
                       !.diary_count = rc.diary_count]
    ELSE state

\* (variant) the guard compares the chat count only
_should_skip_chat_only(state, chat_count, diary_count) ==
    IF ~state.has_counts THEN FALSE ELSE chat_count < state.chat_count

_should_skip_backup_on_decrease(state, chat_count, diary_count) ==
    IF ~state.has_counts THEN FALSE
    ELSE chat_count < state.chat_count \/ diary_count < state.diary_count

\* (variant) only the persisted signature is compared
SignatureSeenStateOnly(state, signature) == state.signature = signature

\* lines 582-585: the signature is the cached one or the persisted one
SignatureSeen(state, signature) ==
    lastSig = Found(signature) \/ state.signature = signature

\* lines 564-585: the decision taken with the state lock held
Decide(rec, state) ==
    IF ~rec.force /\ _should_skip_backup_on_decrease(state, rec.chat_count, rec.diary_count)
    THEN "blocked"
    ELSE IF SignatureSeen(state, rec.signature) THEN "noop"
    ELSE "upload"

\* (variant) the manifest is written before the chunks
ChatWritesManifestFirst(chat_plain, chunk_bytes) ==
    IF FitsSingleFile(Utf8Size(chat_plain), chunk_bytes)
    THEN << [path |-> CanonicalPath, content |-> chat_plain] >>
    ELSE LET cs == _split_text_chunks_by_bytes(chat_plain, chunk_bytes)
             part_paths == [i \in 1..Len(cs) |-> PartPath(i)]
         IN << [path |-> CanonicalPath,
                content |-> _build_chat_parts_manifest(part_paths)] >>
            \o [i \in 1..Len(cs) |-> [path |-> part_paths[i], content |-> cs[i]]]

\* the _github_put_file calls of _upload_chat_backup, in order
ChatWrites(chat_plain, chunk_bytes) ==
    IF FitsSingleFile(Utf8Size(chat_plain), chunk_bytes)
    THEN << [path |-> CanonicalPath, content |-> chat_plain] >>
    ELSE LET cs == _split_text_chunks_by_bytes(chat_plain, chunk_bytes)
             part_paths == [i \in 1..Len(cs) |-> PartPath(i)]
         IN [i \in 1..Len(cs) |-> [path |-> part_paths[i], content |-> cs[i]]]
            \o << [path |-> CanonicalPath,
                   content |-> _build_chat_parts_manifest(part_paths)] >>

\* lines 590-591: the chat upload, then the diary file
SyncWrites(chat_plain, diary_plain, chunk_bytes) ==
    ChatWrites(chat_plain, chunk_bytes)
        \o << [path |-> DiaryPath, content |-> diary_plain] >>

SyncIdle ==
    [pc |-> "idle", force |-> FALSE, chat_plain |-> <<>>, diary_plain |-> <<>>,
     chat_count |-> 0, diary_count |-> 0, signature |-> <<>>,
     state |-> EmptyState, decision |-> "", writes |-> <<>>, idx |-> 0,
     sha |-> NoSha, returned |-> "", net |-> FALSE, put |-> FALSE,
     start_file |-> EmptyState, start_sig |-> None,
     start_canonical |-> None, start_diary |-> None, count_reads |-> 0,
     conflict |-> FALSE, overwrote |-> FALSE, failures |-> {}]

\* (history) the attempt has met the failure f
Failing(rec, f) == [rec EXCEPT !.failures = rec.failures \cup {f}]

\* (variant) an exception leaves maybe_backup_to_github
OnExceptionPropagate(rec) ==
    [rec EXCEPT !.pc = "done", !.returned = "raised"]

\* (variant) the exception is logged and the attempt goes on to save the state
OnExceptionContinue(rec) ==
    [rec EXCEPT !.pc = "save"]

\* lines 603-609: every exception raised inside the try is caught, logged
\* and turned into False
OnException(rec) ==
    [rec EXCEPT !.pc = "done", !.returned = "False"]

\* return False at line 580 or 585
ReturnFalse(rec, state, decision) ==
    [rec EXCEPT !.pc = "done", !.state = state, !.decision = decision,
                !.returned = "False"]

\* the bytes the remote holds at a path, or None
RemoteAt(path) == IF path \in DOMAIN remote THEN Found(remote[path]) ELSE None

\* the attempt leaves the first locked region with its decision;
\* start_canonical and start_diary are history: the remote files as the
\* upload finds them
AfterDecide(rec, state) ==
    LET decision == Decide(rec, state)
    IN IF decision = "upload"
       THEN [rec EXCEPT !.pc = "get_sha", !.state = state, !.decision = decision,
                        !.writes = SyncWrites(rec.chat_plain, rec.diary_plain,
                                              _get_chat_chunk_bytes(chunkEnv)),
                        !.idx = 1,
                        !.start_canonical = RemoteAt(CanonicalPath),
                        !.start_diary = RemoteAt(DiaryPath)]
       ELSE ReturnFalse(rec, state, decision)

\* lines 546-555: the export of the live database, before any lock is taken
SyncStart(t, force) ==
    /\ sy[t].pc = "idle"
    /\ LET chat_plain == _export_plain(live.chat)
           diary_plain == serialize_diary_plain(live.diary)
       IN sy' = [sy EXCEPT ![t] =
                   [SyncIdle EXCEPT !.pc = "load", !.force = force,
                        !.chat_plain = chat_plain, !.diary_plain = diary_plain,
                        !.chat_count = Len(live.chat), !.diary_count = live.diary,
                        !.signature = _compute_backup_signature(chat_plain, diary_plain),
                        !.start_file = stateFile, !.start_sig = lastSig]]
    /\ UNCHANGED <<live, stateFile, lastSig, stateLock, headCommit, synced>>
    /\ UNCHANGED <<backupVars, storageVars, chunkerVars, codecVars, rebuildVars, schedulerVars, guardVars, starterVars, importVars>>

\* a database error during the export
ExportFails(t, force) ==
    /\ sy[t].pc = "idle"
    /\ sy' = [sy EXCEPT ![t] =
                OnException(Failing([SyncIdle EXCEPT !.force = force,
                                         !.start_file = stateFile,
                                         !.start_sig = lastSig], "export"))]
    /\ UNCHANGED <<live, stateFile, lastSig, stateLock, headCommit, synced>>
    /\ UNCHANGED <<backupVars, storageVars, chunkerVars, codecVars, rebuildVars, schedulerVars, guardVars, starterVars, importVars>>

\* lines 557-559: take _BACKUP_STATE_LOCK and load the state; with counts in
\* it the decision follows without leaving the region.  read_ok is FALSE
\* when the file cannot be read or parsed (lines 458-461).
Load(t, read_ok) ==
    /\ sy[t].pc = "load"
    /\ stateLock = "free"
    /\ LET state == IF read_ok THEN stateFile ELSE EmptyState
           rec == IF read_ok THEN sy[t] ELSE Failing(sy[t], "state_read")
       IN IF state.has_counts
          THEN /\ sy' = [sy EXCEPT ![t] = AfterDecide(rec, state)]
               /\ UNCHANGED stateLock
          ELSE /\ sy' = [sy EXCEPT ![t] = [rec EXCEPT !.pc = "recover", !.state = state]]
               /\ stateLock' = t
    /\ UNCHANGED <<live, stateFile, lastSig, headCommit, synced>>
    /\ UNCHANGED <<backupVars, storageVars, chunkerVars, codecVars, rebuildVars, schedulerVars, guardVars, starterVars, importVars>>

\* lines 560-585: the counts are read from the remote with the lock held,
\* then the decision is taken and the lock released
Recover(t, ok) ==
    /\ sy[t].pc = "recover"
    /\ stateLock = t
    /\ LET state == RecoverCounts(sy[t].state, _read_latest_remote_counts(ok))
           rec == IF ok THEN sy[t] ELSE Failing(sy[t], "counts_read")
       IN sy' = [sy EXCEPT ![t] =
                   AfterDecide([rec EXCEPT !.net = TRUE,
                                           !.count_reads = rec.count_reads + 1], state)]
    /\ stateLock' = "free"
    /\ UNCHANGED <<live, stateFile, lastSig, headCommit, synced>>
    /\ UNCHANGED <<backupVars, storageVars, chunkerVars, codecVars, rebuildVars, schedulerVars, guardVars, starterVars, importVars>>

SyncTarget(t) == sy[t].writes[sy[t].idx]

\* _github_put_file, line 184: the sha of the file now at the path
SyncGetSha(t) ==
    /\ sy[t].pc = "get_sha"
    /\ sy' = [sy EXCEPT ![t] =
                [sy[t] EXCEPT !.pc = "put", !.net = TRUE,
                              !.sha = _github_get_file_sha(SyncTarget(t).path)]]
    /\ UNCHANGED <<live, stateFile, lastSig, stateLock, headCommit, synced>>
    /\ UNCHANGED <<backupVars, storageVars, chunkerVars, codecVars, rebuildVars, schedulerVars, guardVars, starterVars, importVars>>

\* the GET of the sha fails (an HTTP error other than 404, or no connection)
SyncGetShaFails(t) ==
    /\ sy[t].pc = "get_sha"
    /\ sy' = [sy EXCEPT ![t] =
                OnException(Failing([sy[t] EXCEPT !.net = TRUE], "sha_read"))]
    /\ UNCHANGED <<live, stateFile, lastSig, stateLock, headCommit, synced>>
    /\ UNCHANGED <<backupVars, storageVars, chunkerVars, codecVars, rebuildVars, schedulerVars, guardVars, starterVars, importVars>>

\* the attempt after an accepted PUT: the next file, or the second region
AfterSyncPut(rec) ==
    IF rec.idx < Len(rec.writes)
    THEN [rec EXCEPT !.pc = "get_sha", !.idx = rec.idx + 1, !.sha = NoSha]
    ELSE [rec EXCEPT !.pc = "save", !.sha = NoSha]

\* _github_put_file, lines 185-187: the PUT carrying the sha read before; the
\* remote commits it with the attempt's message, or rejects it (HTTPError)
SyncPut(t) ==
    /\ sy[t].pc = "put"
    /\ LET w == SyncTarget(t)
           accepted == PutAccepted(w.path, sy[t].sha)
           rec == [sy[t] EXCEPT !.net = TRUE, !.put = TRUE,
                                !.overwrote = sy[t].conflict /\ accepted]
       IN IF accepted
          THEN /\ remote' = RemoteWrite(remote, w.path, Utf8Encode(w.content))
               /\ headCommit' = IF w.path = CanonicalPath
                                THEN CommitCounts(rec.chat_count, rec.diary_count)
                                ELSE headCommit
               /\ sy' = [sy EXCEPT ![t] = AfterSyncPut(rec)]
          ELSE /\ sy' = [sy EXCEPT ![t] = OnException(Failing(rec, "write"))]
               /\ UNCHANGED <<remote, headCommit>>
    /\ UNCHANGED <<live, stateFile, lastSig, stateLock, synced>>
    /\ UNCHANGED <<chunkEnv, up, dl, lastUpload, storageVars, chunkerVars, codecVars, rebuildVars, schedulerVars, guardVars, starterVars, importVars>>

\* the PUT does not reach the remote
SyncPutFails(t) ==
    /\ sy[t].pc = "put"
    /\ sy' = [sy EXCEPT ![t] =
                OnException(Failing([sy[t] EXCEPT !.net = TRUE, !.put = TRUE], "write"))]
    /\ UNCHANGED <<live, stateFile, lastSig, stateLock, headCommit, synced>>
    /\ UNCHANGED <<backupVars, storageVars, chunkerVars, codecVars, rebuildVars, schedulerVars, guardVars, starterVars, importVars>>

\* lines 592-602: the second region saves the state and the cached signature
SyncSave(t) ==
    /\ sy[t].pc = "save"
    /\ stateLock = "free"
    /\ stateFile' = SavedState(sy[t].chat_count, sy[t].diary_count, sy[t].signature)
    /\ lastSig' = Found(sy[t].signature)
    /\ synced' = Found(sy[t].signature)
    /\ sy' = [sy EXCEPT ![t] = [sy[t] EXCEPT !.pc = "done", !.returned = "True"]]
    /\ UNCHANGED <<live, stateLock, headCommit>>
    /\ UNCHANGED <<backupVars, storageVars, chunkerVars, codecVars, rebuildVars, schedulerVars, guardVars, starterVars, importVars>>

\* _save_backup_state raises (the temporary file cannot be written or moved)
SyncSaveFails(t) ==
    /\ sy[t].pc = "save"
    /\ stateLock = "free"
    /\ sy' = [sy EXCEPT ![t] = OnException(Failing(sy[t], "state_write"))]
    /\ UNCHANGED <<live, stateFile, lastSig, stateLock, headCommit, synced>>
    /\ UNCHANGED <<backupVars, storageVars, chunkerVars, codecVars, rebuildVars, schedulerVars, guardVars, starterVars, importVars>>

\* the caller has the returned value; the thread is free for its next call
SyncReturn(t) ==
    /\ sy[t].pc = "done"
    /\ sy' = [sy EXCEPT ![t] = SyncIdle]
    /\ UNCHANGED <<live, stateFile, lastSig, stateLock, headCommit, synced>>
    /\ UNCHANGED <<backupVars, storageVars, chunkerVars, codecVars, rebuildVars, schedulerVars, guardVars, starterVars, importVars>>

\* the diary of the live database is empty or has one entry
DiaryCounts == 0..1

\* the chats of the live database: n messages of the same text, and the same
\* with the text of the first message edited
LiveChat(n, edited) ==
    [i \in 1..n |-> IF i = 1 /\ edited THEN <<54620>> ELSE <<233>>]

LiveValues ==
    [chat : {LiveChat(n, FALSE) : n \in 0..MaxChat}
                \cup {LiveChat(n, TRUE) : n \in 1..MaxChat},
     diary : DiaryCounts]

\* imports, edits, deletions and rebuilds change the live database
LocalChange ==
    /\ \E v \in LiveValues : v # live /\ live' = v
    /\ UNCHANGED <<stateFile, lastSig, stateLock, headCommit, sy, synced>>
    /\ UNCHANGED <<backupVars, storageVars, chunkerVars, codecVars, rebuildVars, schedulerVars, guardVars, starterVars, importVars>>

\* CHAT_APP_GITHUB_CHAT_CHUNK_BYTES in the sync specifications: one message
\* fits in a single file, two do not
SyncChunkEnv == [kind |-> "int", value |-> 16]

SyncInit ==
    /\ live = [chat |-> <<>>, diary |-> 0]
    /\ stateFile = EmptyState
    /\ lastSig = None
    /\ stateLock = "free"
    /\ headCommit = NoCounts
    /\ sy = [t \in Threads |-> SyncIdle]
    /\ synced = None

SyncEngineIdle == SyncInit

\* the steps of one invocation when nothing fails
SyncSteps(t) ==
    \/ Load(t, TRUE)
    \/ Recover(t, TRUE)
    \/ SyncGetSha(t)
    \/ SyncPut(t)
    \/ SyncSave(t)
    \/ SyncReturn(t)

\* the failures of the database, the network and the state file
SyncFailures(t) ==
    \/ \E force \in BOOLEAN : ExportFails(t, force)
    \/ Load(t, FALSE)
    \/ Recover(t, FALSE)
    \/ SyncGetShaFails(t)
    \/ SyncPutFails(t)
    \/ SyncSaveFails(t)

\* invocations one at a time, forced or not, with failures at every step
SyncNext ==
    \/ \E force \in BOOLEAN : SyncStart("request", force)
    \/ SyncSteps("request")
    \/ SyncFailures("request")
    \/ sy["request"].pc = "idle" /\ LocalChange

\* an import adds messages to the chat, a deletion or a rebuild removes some
ChatChange ==
    /\ \E n \in 0..MaxChat :
          /\ n # Len(live.chat)
          /\ live' = [live EXCEPT !.chat = LiveChat(n, FALSE)]
    /\ UNCHANGED <<stateFile, lastSig, stateLock, headCommit, sy, synced>>
    /\ UNCHANGED <<backupVars, storageVars, chunkerVars, codecVars, rebuildVars, schedulerVars, guardVars, starterVars, importVars>>

\* the content another client of the repository writes
OtherContent == <<120>>

\* a second client commits its content to a path of the backup; an attempt
\* that has read the sha of that path for its next PUT is now in conflict
OtherClientWrite(path) ==
    /\ _github_get_file_sha(path) # [found |-> TRUE, sha |-> OtherContent]
    /\ remote' = RemoteWrite(remote, path, OtherContent)
    /\ headCommit' = IF path = CanonicalPath THEN NoCounts ELSE headCommit
    /\ sy' = [t \in Threads |->
                IF sy[t].pc = "put" /\ SyncTarget(t).path = path
                THEN [sy[t] EXCEPT !.conflict = TRUE]
                ELSE sy[t]]
    /\ UNCHANGED <<live, stateFile, lastSig, stateLock, synced>>
    /\ UNCHANGED <<chunkEnv, up, dl, lastUpload, storageVars, chunkerVars, codecVars, rebuildVars, schedulerVars, guardVars, starterVars, importVars>>

\* unforced invocations one at a time, on a remote that a second client
\* writes as well; no request fails for another reason
SyncConflictNext ==
    \/ SyncStart("request", FALSE)
    \/ SyncSteps("request")
    \/ sy["request"].pc = "idle" /\ ChatChange
    \/ \E path \in {CanonicalPath, PartPath(1), DiaryPath} : OtherClientWrite(path)

\* unforced invocations of the request thread and of the scheduler, which
\* may overlap, while the chat changes; nothing fails
SyncThreadsNext ==
    \/ \E t \in Threads : SyncStart(t, FALSE) \/ SyncSteps(t)
    \/ ChatChange

----------------------------------------------------------------------------
(* storage.py: normalize_db_senders_and_dedup statement by statement, on a *)
(* sqlite3 connection in the module's default (legacy) transaction mode.   *)

\* a table of the database file: missing, or present with its rows
NoTable == [exists |-> FALSE, rows |-> <<>>]
Table(rows) == [exists |-> TRUE, rows |-> rows]

NoTxn == [active |-> FALSE, messages |-> NoTable, messages_new |-> NoTable]

RebuildIdle ==
    [pc |-> "idle", has_messages |-> TRUE, new |-> NoTable, txn |-> NoTxn,
     rows |-> <<>>, i |-> 0, outcomes |-> <<>>, before |-> <<>>]

\* the tables as the connection of the rebuild sees them: those of its open
\* transaction, or else the committed ones
View(rec, msgs) ==
    IF rec.txn.active
    THEN [messages |-> rec.txn.messages, messages_new |-> rec.txn.messages_new]
    ELSE [messages |-> IF rec.has_messages THEN Table(msgs) ELSE NoTable,
          messages_new |-> rec.new]

\* the tables db are written to the database file
OnDisk(rec, db) ==
    [rb |-> [rec EXCEPT !.txn = NoTxn, !.has_messages = db.messages.exists,
                        !.new = db.messages_new],
     messages |-> db.messages.rows]

\* conn.execute of a statement that leaves the tables db: it runs inside the
\* open transaction when there is one; the sqlite3 module opens one before
\* an INSERT (dml) and before no other statement used here; without a
\* transaction the statement is committed by itself
Execute(rec, db, dml) ==
    IF rec.txn.active \/ dml
    THEN [rb |-> [rec EXCEPT !.txn = [active |-> TRUE, messages |-> db.messages,
                                      messages_new |-> db.messages_new]],
          messages |-> messages]
    ELSE OnDisk(rec, db)

\* COMMIT of the open transaction, if any
CommitTxn(rec) ==
    IF rec.txn.active
    THEN OnDisk(rec, [messages |-> rec.txn.messages,
                      messages_new |-> rec.txn.messages_new])
    ELSE [rb |-> rec, messages |-> messages]

\* lines 274-280: init_db, connect and BEGIN
RebuildStart ==
    /\ rb.pc = "idle"
    /\ rb' = [rb EXCEPT !.pc = "drop_new", !.before = messages, !.rows = <<>>,
                        !.i = 0, !.outcomes = <<>>,
                        !.txn = [active |-> TRUE, messages |-> Table(messages),
                                 messages_new |-> rb.new]]
    /\ UNCHANGED <<messages, lastOp, chunkerVars, backupVars, codecVars, syncVars, schedulerVars, guardVars, starterVars, importVars>>

\* line 283: DROP TABLE IF EXISTS messages_new
RebuildDropNew ==
    /\ rb.pc = "drop_new"
    /\ LET db == [View(rb, messages) EXCEPT !.messages_new = NoTable]
           x == Execute(rb, db, FALSE)
       IN /\ rb' = [x.rb EXCEPT !.pc = "script"]
          /\ messages' = x.messages
    /\ UNCHANGED <<lastOp, chunkerVars, backupVars, codecVars, syncVars, schedulerVars, guardVars, starterVars, importVars>>

\* lines 284-287: executescript commits the open transaction, then creates
\* messages_new and its index
RebuildScript ==
    /\ rb.pc = "script"
    /\ LET c == CommitTxn(rb)
           v == View(c.rb, c.messages)
           db == [v EXCEPT !.messages_new =
                      IF v.messages_new.exists THEN v.messages_new ELSE Table(<<>>)]
           x == OnDisk(c.rb, db)
       IN /\ rb' = [x.rb EXCEPT !.pc = "select"]
          /\ messages' = x.messages
    /\ UNCHANGED <<lastOp, chunkerVars, backupVars, codecVars, syncVars, schedulerVars, guardVars, starterVars, importVars>>

\* lines 289-295: SELECT ... FROM messages ORDER BY dt ASC, id ASC
RebuildSelect ==
    /\ rb.pc = "select"
    /\ LET tbl == View(rb, messages).messages.rows
           rows == OrderByDtId(tbl, 1..Len(tbl))
       IN rb' = [rb EXCEPT !.rows = rows, !.i = 1,
                           !.pc = IF rows = <<>> THEN "drop_old" ELSE "insert"]
    /\ UNCHANGED <<messages, lastOp, chunkerVars, backupVars, codecVars, syncVars, schedulerVars, guardVars, starterVars, importVars>>

\* lines 297-316: one pass of the loop, INSERT OR IGNORE INTO messages_new
RebuildInsert ==
    /\ rb.pc = "insert"
    /\ LET v == View(rb, messages)
           r == InsertOrIgnore(v.messages_new.rows,
                               RebuildRow(rb.rows[rb.i], me_sender, other_sender))
           db == [v EXCEPT !.messages_new = Table(r.table)]
           x == Execute(rb, db, TRUE)
       IN /\ rb' = [x.rb EXCEPT !.outcomes = Append(rb.outcomes, r.rowcount),
                                !.i = rb.i + 1,
                                !.pc = IF rb.i = Len(rb.rows) THEN "drop_old" ELSE "insert"]
          /\ messages' = x.messages
    /\ UNCHANGED <<lastOp, chunkerVars, backupVars, codecVars, syncVars, schedulerVars, guardVars, starterVars, importVars>>

\* line 318: DROP TABLE messages
RebuildDropOld ==
    /\ rb.pc = "drop_old"
    /\ LET db == [View(rb, messages) EXCEPT !.messages = NoTable]
           x == Execute(rb, db, FALSE)
       IN /\ rb' = [x.rb EXCEPT !.pc = "rename"]
          /\ messages' = x.messages
    /\ UNCHANGED <<lastOp, chunkerVars, backupVars, codecVars, syncVars, schedulerVars, guardVars, starterVars, importVars>>

\* line 319: ALTER TABLE messages_new RENAME TO messages
RebuildRename ==
    /\ rb.pc = "rename"
    /\ LET v == View(rb, messages)
           db == [messages |-> v.messages_new, messages_new |-> NoTable]
           x == Execute(rb, db, FALSE)
       IN /\ rb' = [x.rb EXCEPT !.pc = "commit"]
          /\ messages' = x.messages
    /\ UNCHANGED <<lastOp, chunkerVars, backupVars, codecVars, syncVars, schedulerVars, guardVars, starterVars, importVars>>

\* lines 320-322: the index statements, which leave the rows alone, and
\* conn.commit()
RebuildCommit ==
    /\ rb.pc = "commit"
    /\ LET x == CommitTxn(rb)
       IN /\ rb' = [x.rb EXCEPT !.pc = "done"]
          /\ messages' = x.messages
    /\ UNCHANGED <<lastOp, chunkerVars, backupVars, codecVars, syncVars, schedulerVars, guardVars, starterVars, importVars>>

\* line 324: the result is returned
RebuildReturn ==
    /\ rb.pc = "done"
    /\ rb' = [rb EXCEPT !.pc = "idle"]
    /\ UNCHANGED <<messages, lastOp, chunkerVars, backupVars, codecVars, syncVars, schedulerVars, guardVars, starterVars, importVars>>

\* a statement raises, or the process stops: the open transaction is rolled
\* back (by the with block of line 278, or by the journal at the next open)
RebuildAbort ==
    /\ rb.pc \in {"drop_new", "script", "select", "insert", "drop_old",
                  "rename", "commit"}
    /\ rb' = [rb EXCEPT !.pc = "aborted", !.txn = NoTxn]
    /\ UNCHANGED <<messages, lastOp, chunkerVars, backupVars, codecVars, syncVars, schedulerVars, guardVars, starterVars, importVars>>

\* the next call of a storage function starts with init_db, whose
\* CREATE TABLE IF NOT EXISTS messages makes a missing table anew, empty
RebuildRecover ==
    /\ rb.pc = "aborted"
    /\ rb' = [rb EXCEPT !.pc = "idle", !.has_messages = TRUE]
    /\ UNCHANGED <<messages, lastOp, chunkerVars, backupVars, codecVars, syncVars, schedulerVars, guardVars, starterVars, importVars>>

\* imports between the rebuilds, and rebuilds that may stop at any statement
RebuildNext ==
    \/ /\ rb.pc = "idle"
       /\ \E msgs \in MessageLists, source \in Sources :
             import_messages(msgs, source)
    \/ RebuildStart
    \/ RebuildDropNew
    \/ RebuildScript
    \/ RebuildSelect
    \/ RebuildInsert
    \/ RebuildDropOld
    \/ RebuildRename
    \/ RebuildCommit
    \/ RebuildReturn
    \/ RebuildAbort
    \/ RebuildRecover

-----------------------------------------------------------------------------
(* The periodic backup: _get_periodic_backup_interval_seconds and the loop  *)
(* of start_periodic_github_backup.  Times are whole seconds; a configured  *)
(* number of minutes is held as the seconds it stands for (minutes * 60),   *)
(* and time.sleep(w) returns w seconds after the call.                      *)

DefaultIntervalSeconds == 43200
MinIntervalSeconds == 60
SleepFloorSeconds == 5
SecondsPerHour == 60 * SecondsPerMinute

\* CHAT_APP_GITHUB_BACKUP_INTERVAL_MINUTES: not set (or blank), a text that
\* float() rejects, or a number of minutes
IntervalUnset == [kind |-> "unset", seconds |-> 0]
IntervalText == [kind |-> "text", seconds |-> 0]
IntervalMinutes(seconds) == [kind |-> "minutes", seconds |-> seconds]

IntervalEnvValues ==
    {IntervalUnset, IntervalText}
        \cup {IntervalMinutes(s) : s \in (0 - 1)..MaxEnvSeconds}
        \cup {IntervalMinutes(s) : s \in {1800, 3599, 3600, 5400}}

\* (variant) the floor of the interval is one hour
_get_periodic_backup_interval_hour_floor(env) ==
    IF env.kind = "unset" THEN DefaultIntervalSeconds
    ELSE IF env.kind = "text" THEN 0
    ELSE IF env.seconds <= 0 THEN 0
    ELSE Max(SecondsPerHour, env.seconds)

_get_periodic_backup_interval_seconds(env) ==
    IF env.kind = "unset" THEN DefaultIntervalSeconds
    ELSE IF env.kind = "text" THEN 0
    ELSE IF env.seconds <= 0 THEN 0
    ELSE Max(MinIntervalSeconds, env.seconds)

\* (variant) the loop sleeps the whole interval after each sync
WaitSecondsWholeInterval(interval_seconds, elapsed) == interval_seconds

\* line 651
WaitSeconds(interval_seconds, elapsed) ==
    Max(SleepFloorSeconds, interval_seconds - elapsed)

\* The durations of one maybe_backup_to_github call that the loop measures:
\* short ones and those around interval - floor and the interval itself.
Durations(interval_seconds) ==
    (0..MaxElapsed)
        \cup {interval_seconds + d : d \in (0 - SleepFloorSeconds - 1)..1}

\* pc: "off" before start_periodic_github_backup, "disabled" when it returned
\* False, "sync" at line 648, "sleep" at line 652.  gap and rest are history:
\* the time from the start of the previous sync to the start of this one, and
\* from its end to the start of this one (-1 before the second sync).
SchedulerOff(env) ==
    [pc |-> "off", env |-> env, configured |-> TRUE, interval_seconds |-> 0,
     elapsed |-> 0, wait_seconds |-> 0, gap |-> 0 - 1, rest |-> 0 - 1,
     prev_elapsed |-> 0, returned |-> FALSE]

SchedulerIdle == SchedulerOff(IntervalUnset)

\* lines 612-656 up to the start of the thread; has_cfg is FALSE when
\* _get_backup_config finds no token or repository
start_periodic_github_backup(has_cfg) ==
    /\ sched.pc = "off"
    /\ LET interval_seconds == _get_periodic_backup_interval_seconds(sched.env)
       IN sched' = IF interval_seconds <= 0 \/ ~has_cfg
                   THEN [sched EXCEPT !.pc = "disabled", !.configured = has_cfg,
                                      !.interval_seconds = interval_seconds]
                   ELSE [sched EXCEPT !.pc = "sync", !.returned = TRUE,
                                      !.interval_seconds = interval_seconds]
    /\ UNCHANGED <<storageVars, chunkerVars, backupVars, codecVars, syncVars, rebuildVars, guardVars, starterVars, importVars>>

\* lines 648-651: one sync that takes `elapsed` seconds, then wait_seconds
LoopSync(elapsed) ==
    /\ sched.pc = "sync"
    /\ sched' = [sched EXCEPT !.pc = "sleep", !.elapsed = elapsed,
                     !.wait_seconds = WaitSeconds(sched.interval_seconds, elapsed)]
    /\ UNCHANGED <<storageVars, chunkerVars, backupVars, codecVars, syncVars, rebuildVars, guardVars, starterVars, importVars>>

\* line 652 and the next line 648: the sleep ends and the next sync starts
LoopSleep ==
    /\ sched.pc = "sleep"
    /\ sched' = [sched EXCEPT !.pc = "sync",
                     !.gap = sched.elapsed + sched.wait_seconds,
                     !.rest = sched.wait_seconds,
                     !.prev_elapsed = sched.elapsed]
    /\ UNCHANGED <<storageVars, chunkerVars, backupVars, codecVars, syncVars, rebuildVars, guardVars, starterVars, importVars>>

SchedulerInit == \E env \in IntervalEnvValues : sched = SchedulerOff(env)

SchedulerNext ==
    \/ \E has_cfg \in BOOLEAN : start_periodic_github_backup(has_cfg)
    \/ \E elapsed \in Durations(sched.interval_seconds) :
          elapsed >= 0 /\ LoopSync(elapsed)
    \/ LoopSleep

-----------------------------------------------------------------------------
(* The decrease guard across attempts (maybe_backup_to_github, lines        *)
(* 564-580): unforced invocations one at a time, as every caller of the     *)
(* application makes them, with the history of the latest blocked attempt.  *)

NoGuard == [active |-> FALSE, chat_count |-> 0, diary_count |-> 0]

\* the baseline that blocked the attempt
GuardOf(rec) ==
    [active |-> TRUE, chat_count |-> rec.state.chat_count,
     diary_count |-> rec.state.diary_count]

\* both live counts are at or above the baseline again
GuardMet(g, v) == Len(v.chat) >= g.chat_count /\ v.diary >= g.diary_count

\* maybe_backup_to_github returns; a blocked attempt leaves its baseline in
\* the history
GuardReturn(t) ==
    /\ sy[t].pc = "done"
    /\ sy' = [sy EXCEPT ![t] = SyncIdle]
    /\ guard' = IF sy[t].decision = "blocked" THEN GuardOf(sy[t]) ELSE guard
    /\ UNCHANGED <<live, stateFile, lastSig, stateLock, headCommit, synced>>
    /\ UNCHANGED <<backupVars, storageVars, chunkerVars, codecVars, rebuildVars, schedulerVars, starterVars, importVars>>

\* imports, edits, deletions and rebuilds change the live database; the
\* history ends when the counts are back at the baseline
GuardChange ==
    /\ \E v \in LiveValues :
          /\ v # live
          /\ live' = v
          /\ guard' = IF guard.active /\ GuardMet(guard, v) THEN NoGuard ELSE guard
    /\ UNCHANGED <<stateFile, lastSig, stateLock, headCommit, sy, synced>>
    /\ UNCHANGED <<backupVars, storageVars, chunkerVars, codecVars, rebuildVars, schedulerVars, starterVars, importVars>>

\* unforced invocations one at a time; the state file may be unreadable, the
\* read of the remote counts may fail, and the state may fail to be saved
GuardNext ==
    \/ SyncStart("request", FALSE)
    \/ Load("request", TRUE)
    \/ Recover("request", TRUE)
    \/ SyncGetSha("request")
    \/ SyncPut("request")
    \/ SyncSave("request")
    \/ GuardReturn("request")
    \/ Load("request", FALSE)
    \/ Recover("request", FALSE)
    \/ SyncSaveFails("request")
    \/ sy["request"].pc = "idle" /\ GuardChange

\* the same when every read of the state file and of the remote counts
\* succeeds
GuardNextNoFailure ==
    \/ SyncStart("request", FALSE)
    \/ Load("request", TRUE)
    \/ Recover("request", TRUE)
    \/ SyncGetSha("request")
    \/ SyncPut("request")
    \/ SyncSave("request")
    \/ GuardReturn("request")
    \/ sy["request"].pc = "idle" /\ GuardChange

-----------------------------------------------------------------------------
(* The start of the periodic backup (start_periodic_github_backup, lines    *)
(* 612-656) called by several threads of one process, statement by          *)
(* statement: the interval, the configuration, the locked test and set of   *)
(* _PERIODIC_BACKUP_STARTED, the start of the loop thread.                  *)

MaxCallers == 2   \* threads that call start_periodic_github_backup
MaxCalls == 2     \* calls of one thread

Callers == 1..MaxCallers
NoCaller == 0

\* the settings of the process the calls are checked with
StarterEnvValues ==
    {IntervalUnset, IntervalText, IntervalMinutes(0), IntervalMinutes(MinIntervalSeconds)}

\* the process before any call: _PERIODIC_BACKUP_STARTED = False (line 118),
\* the lock free, no loop thread
StarterOff(env, has_cfg) ==
    [env |-> env, has_cfg |-> has_cfg,
     _PERIODIC_BACKUP_STARTED |-> FALSE,
     _PERIODIC_BACKUP_LOCK |-> NoCaller,
     loops |-> 0,
     pc |-> [c \in Callers |-> "idle"],
     calls |-> [c \in Callers |-> 0],
     returned |-> [c \in Callers |-> ""]]

StarterIdle == StarterOff(IntervalUnset, TRUE)

\* (variant) the test and the set run outside the lock
LockFreeIgnored(lock) == TRUE

\* with _PERIODIC_BACKUP_LOCK: the lock can be taken when no thread holds it
LockFree(lock) == lock = NoCaller

StarterStep(c, from, to) ==
    /\ starter.pc[c] = from
    /\ starter' = [starter EXCEPT !.pc[c] = to]
    /\ UNCHANGED <<storageVars, chunkerVars, backupVars, codecVars, syncVars, rebuildVars, schedulerVars, guardVars, importVars>>

StarterReturns(c, from, value) ==
    /\ starter.pc[c] = from
    /\ starter' = [starter EXCEPT !.pc[c] = "idle", !.returned[c] = value]
    /\ UNCHANGED <<storageVars, chunkerVars, backupVars, codecVars, syncVars, rebuildVars, schedulerVars, guardVars, importVars>>

\* a thread calls start_periodic_github_backup
StartCall(c) ==
    /\ starter.pc[c] = "idle"
    /\ starter.calls[c] < MaxCalls
    /\ starter' = [starter EXCEPT !.pc[c] = "interval", !.calls[c] = @ + 1,
                                  !.returned[c] = ""]
    /\ UNCHANGED <<storageVars, chunkerVars, backupVars, codecVars, syncVars, rebuildVars, schedulerVars, guardVars, importVars>>

\* lines 614-616
StartInterval(c) ==
    IF _get_periodic_backup_interval_seconds(starter.env) <= 0
    THEN StarterReturns(c, "interval", "False")
    ELSE StarterStep(c, "interval", "config")

\* lines 618-627
StartConfig(c) ==
    IF ~starter.has_cfg
    THEN StarterReturns(c, "config", "False")
    ELSE StarterStep(c, "config", "acquire")

\* line 629: the lock is taken
StartAcquire(c) ==
    /\ starter.pc[c] = "acquire"
    /\ LockFree(starter._PERIODIC_BACKUP_LOCK)
    /\ starter' = [starter EXCEPT !.pc[c] = "test", !._PERIODIC_BACKUP_LOCK = c]
    /\ UNCHANGED <<storageVars, chunkerVars, backupVars, codecVars, syncVars, rebuildVars, schedulerVars, guardVars, importVars>>

\* line 630: the flag is read
StartTest(c) ==
    IF starter._PERIODIC_BACKUP_STARTED
    THEN StarterStep(c, "test", "release_started")
    ELSE StarterStep(c, "test", "set")

\* line 631 and the end of the with block: return True with the lock released
StartReleaseStarted(c) ==
    /\ starter.pc[c] = "release_started"
    /\ starter' = [starter EXCEPT !.pc[c] = "idle", !.returned[c] = "True",
                       !._PERIODIC_BACKUP_LOCK = NoCaller]
    /\ UNCHANGED <<storageVars, chunkerVars, backupVars, codecVars, syncVars, rebuildVars, schedulerVars, guardVars, importVars>>

\* line 632 and the end of the with block
StartSet(c) ==
    /\ starter.pc[c] = "set"
    /\ starter' = [starter EXCEPT !.pc[c] = "thread",
                       !._PERIODIC_BACKUP_STARTED = TRUE,
                       !._PERIODIC_BACKUP_LOCK = NoCaller]
    /\ UNCHANGED <<storageVars, chunkerVars, backupVars, codecVars, syncVars, rebuildVars, schedulerVars, guardVars, importVars>>

\* lines 654-656: the loop thread is started and the call returns True
StartThread(c) ==
    /\ starter.pc[c] = "thread"
    /\ starter' = [starter EXCEPT !.pc[c] = "idle", !.returned[c] = "True",
                       !.loops = @ + 1]
    /\ UNCHANGED <<storageVars, chunkerVars, backupVars, codecVars, syncVars, rebuildVars, schedulerVars, guardVars, importVars>>

StarterInit ==
    \E env \in StarterEnvValues, has_cfg \in BOOLEAN :
        starter = StarterOff(env, has_cfg)

StarterNext ==
    \E c \in Callers :
        \/ StartCall(c)
        \/ StartInterval(c)
        \/ StartConfig(c)
        \/ StartAcquire(c)
        \/ StartTest(c)
        \/ StartReleaseStarted(c)
        \/ StartSet(c)
        \/ StartThread(c)

-----------------------------------------------------------------------------
(* The loop thread (_loop, lines 636-652) with the sync attempts it makes:  *)
(* each iteration calls maybe_backup_to_github without force, measures the  *)
(* duration and sleeps.                                                     *)

LoopThread == "scheduler"

\* CHAT_APP_GITHUB_CHAT_CHUNK_BYTES in the loop specifications: every export
\* fits in a single file, an upload is the chat file and the diary file
LoopChunkEnv == [kind |-> "int", value |-> 16 * (MaxChat + 2)]

\* the duration of an attempt the loop is checked with (C24 covers the
\* others)
LoopDurations == {MaxElapsed}

\* line 649: the iteration calls maybe_backup_to_github, which exports the
\* database
LoopAttempt ==
    /\ sched.pc = "sync"
    /\ SyncStart(LoopThread, FALSE)

\* line 649 with a database error during the export
LoopExportFails ==
    /\ sched.pc = "sync"
    /\ ExportFails(LoopThread, FALSE)

\* lines 649-651: maybe_backup_to_github returns after `elapsed` seconds and
\* the loop computes wait_seconds; an exception that leaves the call ends
\* the thread, the loop has no handler of its own
LoopReturn(elapsed) ==
    /\ sched.pc = "sync"
    /\ sy[LoopThread].pc = "done"
    /\ sy' = [sy EXCEPT ![LoopThread] = SyncIdle]
    /\ sched' = IF sy[LoopThread].returned = "raised"
                THEN [sched EXCEPT !.pc = "dead"]
                ELSE [sched EXCEPT !.pc = "sleep", !.elapsed = elapsed,
                          !.wait_seconds = WaitSeconds(sched.interval_seconds, elapsed)]
    /\ UNCHANGED <<live, stateFile, lastSig, stateLock, headCommit, synced>>
    /\ UNCHANGED <<backupVars, storageVars, chunkerVars, codecVars, rebuildVars, guardVars, starterVars, importVars>>

\* the steps of the loop thread
LoopThreadNext ==
    \/ LoopAttempt
    \/ LoopExportFails
    \/ Load(LoopThread, TRUE)
    \/ Recover(LoopThread, TRUE)
    \/ SyncGetSha(LoopThread)
    \/ SyncPut(LoopThread)
    \/ SyncSave(LoopThread)
    \/ Load(LoopThread, FALSE)
    \/ Recover(LoopThread, FALSE)
    \/ SyncGetShaFails(LoopThread)
    \/ SyncPutFails(LoopThread)
    \/ SyncSaveFails(LoopThread)
    \/ \E elapsed \in LoopDurations : LoopReturn(elapsed)
    \/ LoopSleep

\* the loop is started once; the database changes between two attempts
LoopNext ==
    \/ start_periodic_github_backup(TRUE)
    \/ LoopThreadNext
    \/ sched.pc = "sleep" /\ ChatChange

-----------------------------------------------------------------------------
(* import_messages statement by statement (storage.py, lines 214-239):      *)
(* `messages` is the table as committed to the database file, im.txn the    *)
(* open transaction of the connection of the call.                          *)

ImportIdle ==
    [pc |-> "idle", msgs |-> <<>>, source |-> "", i |-> 0, before |-> <<>>,
     txn |-> [active |-> FALSE, rows |-> <<>>], outcomes |-> <<>>]

\* the table as the connection of the call sees it
ImportView(rec) == IF rec.txn.active THEN rec.txn.rows ELSE messages

\* (variant) every INSERT is committed by itself
ExecuteInsertAutocommit(rec, rows) ==
    [im |-> rec, messages |-> rows]

\* conn.execute of the INSERT: the sqlite3 module opens a transaction before
\* the first one, and the rows stay in it until conn.commit()
ExecuteInsert(rec, rows) ==
    [im |-> [rec EXCEPT !.txn = [active |-> TRUE, rows |-> rows]],
     messages |-> messages]

\* the source labels of the calls: two files
ImportSources == Sources \cup {"s2"}

\* lines 215-219: init_db finds the table, the connection is opened
ImportBegin(msgs, source) ==
    /\ im.pc = "idle"
    /\ im' = [ImportIdle EXCEPT !.pc = "loop", !.msgs = msgs, !.source = source,
                                !.i = 1, !.before = messages]
    /\ UNCHANGED <<storageVars, chunkerVars, backupVars>>
    /\ UNCHANGED <<codecVars, syncVars, rebuildVars, schedulerVars, guardVars, starterVars>>

\* lines 220-235: one pass of the for loop
ImportStatement ==
    /\ im.pc = "loop"
    /\ im.i <= Len(im.msgs)
    /\ LET r == InsertOrIgnore(ImportView(im), ImportRow(im.msgs[im.i], im.source))
           e == ExecuteInsert([im EXCEPT !.i = im.i + 1,
                                         !.outcomes = Append(im.outcomes, r.rowcount)],
                              r.table)
       IN /\ im' = e.im
          /\ messages' = e.messages
    /\ UNCHANGED <<lastOp, chunkerVars, backupVars>>
    /\ UNCHANGED <<codecVars, syncVars, rebuildVars, schedulerVars, guardVars, starterVars>>

\* line 237 and the end of the with block: conn.commit()
ImportCommit ==
    /\ im.pc = "loop"
    /\ im.i > Len(im.msgs)
    /\ messages' = ImportView(im)
    /\ im' = [im EXCEPT !.pc = "done", !.txn = ImportIdle.txn]
    /\ UNCHANGED <<lastOp, chunkerVars, backupVars>>
    /\ UNCHANGED <<codecVars, syncVars, rebuildVars, schedulerVars, guardVars, starterVars>>

\* the call stops before the commit: an exception leaves the with block,
\* whose exit rolls the transaction back, or the process ends and the next
\* connection rolls the journal back
ImportStops(how) ==
    /\ im.pc = "loop"
    /\ im' = [im EXCEPT !.pc = how, !.txn = ImportIdle.txn]
    /\ UNCHANGED <<storageVars, chunkerVars, backupVars>>
    /\ UNCHANGED <<codecVars, syncVars, rebuildVars, schedulerVars, guardVars, starterVars>>

\* line 239, the exception reaches the caller, or the process starts again
ImportEnd ==
    /\ im.pc \in {"done", "raised", "crashed"}
    /\ im' = ImportIdle
    /\ UNCHANGED <<storageVars, chunkerVars, backupVars>>
    /\ UNCHANGED <<codecVars, syncVars, rebuildVars, schedulerVars, guardVars, starterVars>>

ImportNext ==
    \/ \E msgs \in MessageLists, source \in ImportSources : ImportBegin(msgs, source)
    \/ ImportStatement
    \/ ImportCommit
    \/ \E how \in {"raised", "crashed"} : ImportStops(how)
    \/ ImportEnd

----------------------------------------------------------------------------
(* Specifications.                                                         *)

\* the import pipeline on one database
\* the variables of the guard history, of the starter and of the stepwise
\* import at rest
HistoryIdle == guard = NoGuard /\ starter = StarterIdle /\ im = ImportIdle

EngineIdle ==
    /\ CodecIdle /\ SyncEngineIdle /\ rb = RebuildIdle /\ sched = SchedulerIdle
    /\ HistoryIdle

StorageSpecInit == StorageInit /\ ChunkerIdle /\ BackupIdle /\ EngineIdle
Spec == StorageSpecInit /\ [][StorageNext]_vars

\* import_messages statement by statement, with calls that stop midway
SpecImport == StorageSpecInit /\ [][ImportNext]_vars

\* calls of the chunker on all bounded inputs
ChunkerSpecInit == ChunkerInit /\ StorageInit /\ BackupIdle /\ EngineIdle
SpecChunker == ChunkerSpecInit /\ [][SplitCall]_vars

\* chat uploads and downloads against a remote only this process writes
BackupSpecInit == BackupInit /\ StorageInit /\ ChunkerIdle /\ EngineIdle
SpecBackup == BackupSpecInit /\ [][BackupNext]_vars

\* chat uploads with downloads that overlap them
SpecConcurrent == BackupSpecInit /\ [][ConcurrentNext]_vars

\* the same, with another user of the remote deleting chunk files
RemoteLossNext == BackupNext \/ RemoteDeletePart
SpecRemoteLoss == BackupSpecInit /\ [][RemoteLossNext]_vars

\* downloads from a repository whose canonical file was damaged
SpecDamage == StorageSpecInit /\ [][DamageNext]_vars

\* calls of the manifest codec on all bounded path lists
CodecSpecInit ==
    /\ CodecInit /\ StorageInit /\ ChunkerIdle /\ BackupIdle
    /\ SyncEngineIdle /\ rb = RebuildIdle /\ sched = SchedulerIdle
    /\ HistoryIdle
SpecCodec == CodecSpecInit /\ [][CodecCall]_vars

\* sync invocations one at a time, forced or not, with failures
SyncSpecInit ==
    /\ SyncInit /\ chunkEnv = SyncChunkEnv
    /\ remote = EmptyRemote /\ up = UpIdle /\ dl = DlIdle
    /\ lastUpload = [completed |-> FALSE, chat_plain |-> <<>>]
    /\ StorageInit /\ ChunkerIdle /\ CodecIdle /\ rb = RebuildIdle
    /\ sched = SchedulerIdle /\ HistoryIdle
SpecSync == SyncSpecInit /\ [][SyncNext]_vars

\* rebuilds and imports on a database written before the present dedup key
LegacySpecInit == LegacyInit /\ ChunkerIdle /\ BackupIdle /\ EngineIdle
SpecLegacy == LegacySpecInit /\ [][LegacyNext]_vars

\* imports and statement-by-statement rebuilds of one database file
SpecRebuild == StorageSpecInit /\ [][RebuildNext]_vars

\* unforced sync invocations against a remote that a second client writes
SpecSyncConflict == SyncSpecInit /\ [][SyncConflictNext]_vars

\* the periodic backup loop under every configured interval
SchedulerSpecInit ==
    /\ SchedulerInit /\ StorageInit /\ ChunkerIdle /\ BackupIdle
    /\ CodecIdle /\ SyncEngineIdle /\ rb = RebuildIdle
    /\ HistoryIdle
SpecScheduler == SchedulerSpecInit /\ [][SchedulerNext]_vars

\* unforced sync invocations one at a time, with the history of the guard
SpecGuard == SyncSpecInit /\ [][GuardNext]_vars
SpecGuardNoFailure == SyncSpecInit /\ [][GuardNextNoFailure]_vars

\* calls of start_periodic_github_backup by several threads
StarterSpecInit ==
    /\ StarterInit /\ StorageInit /\ ChunkerIdle /\ BackupIdle
    /\ CodecIdle /\ SyncEngineIdle /\ rb = RebuildIdle /\ sched = SchedulerIdle
    /\ guard = NoGuard /\ im = ImportIdle
SpecStarter == StarterSpecInit /\ [][StarterNext]_vars

\* the loop thread and its sync attempts; SpecLoopFair adds the scheduling of
\* the thread: a daemon thread that can take a step (a statement of the
\* attempt, the return, the end of time.sleep) eventually takes one
LoopSpecInit ==
    /\ SyncInit /\ chunkEnv = LoopChunkEnv
    /\ remote = EmptyRemote /\ up = UpIdle /\ dl = DlIdle
    /\ lastUpload = [completed |-> FALSE, chat_plain |-> <<>>]
    /\ StorageInit /\ ChunkerIdle /\ CodecIdle /\ rb = RebuildIdle
    /\ sched = SchedulerIdle /\ HistoryIdle
SpecLoop == LoopSpecInit /\ [][LoopNext]_vars
SpecLoopFair == SpecLoop /\ WF_vars(LoopThreadNext)

\* unforced sync invocations of two threads that may overlap
SpecSyncThreads == SyncSpecInit /\ [][SyncThreadsNext]_vars

----------------------------------------------------------------------------
(* Properties of the import pipeline (checked under Spec).                 *)

\* the dedup key of a message, from its minute and its normalized body
KeyOfMessage(msg) ==
    <<msg.dt \div SecondsPerMinute, 10>> \o normalize_text_for_dedup(msg.text)

KeysOfMessages(msgs) == {KeyOfMessage(msgs[i]) : i \in 1..Len(msgs)}

KeysOfTable(tbl) == {tbl[i].dedup_key : i \in 1..Len(tbl)}

C2_SameListTwice ==
    lastOp.repeat =>
        /\ lastOp.first.inserted = Len(lastOp.msgs)
        /\ lastOp.first.skipped = 0
        /\ lastOp.result.inserted = 0
        /\ lastOp.result.skipped = Len(lastOp.msgs)

\* the N messages have pairwise distinct dedup keys, none of them in tbl
FreshAndDistinct(msgs, tbl) ==
    /\ Cardinality(KeysOfMessages(msgs)) = Len(msgs)
    /\ KeysOfMessages(msgs) \cap KeysOfTable(tbl) = {}

\* C2 (amended): importing the same list of N messages twice yields
\* inserted = 0, skipped = N on the second call; the first call yields
\* inserted = N, skipped = 0 exactly when the N messages have pairwise
\* distinct dedup keys none of which was in the table before it.
C2_SameListTwiceAmended ==
    lastOp.repeat =>
        /\ lastOp.result.inserted = 0
        /\ lastOp.result.skipped = Len(lastOp.msgs)
        /\ lastOp.result.total = Len(lastOp.msgs)
        /\ FreshAndDistinct(lastOp.msgs, lastOp.firstBefore)
               <=> (lastOp.first.inserted = Len(lastOp.msgs) /\ lastOp.first.skipped = 0)

\* the second of two imports of the same two fresh messages
C2_Witness ==
    /\ lastOp.repeat
    /\ Len(lastOp.msgs) = 2
    /\ lastOp.first.inserted = 2
    /\ lastOp.result.skipped = 2

\* C3: import_messages returns inserted = the number of distinct dedup keys
\* of the input that were not in the table before the call, skipped = total -
\* inserted, total = the length of the input, and the table grows by exactly
\* inserted rows.
C3_ImportCounts ==
    IsImport(lastOp.op) =>
        /\ lastOp.result.inserted
               = Cardinality(KeysOfMessages(lastOp.msgs) \ KeysOfTable(lastOp.before))
        /\ lastOp.result.skipped = lastOp.result.total - lastOp.result.inserted
        /\ lastOp.result.total = Len(lastOp.msgs)
        /\ Len(messages) = Len(lastOp.before) + lastOp.result.inserted

\* an import into a non-empty table that inserts one message and skips another
C3_Witness ==
    /\ IsImport(lastOp.op)
    /\ lastOp.before # <<>>
    /\ lastOp.result.inserted >= 1
    /\ lastOp.result.skipped >= 1

\* messages i < j of one input fall in the same minute and their bodies differ
\* in whitespace only
WhitespaceTwins(msgs, i, j) ==
    /\ i < j
    /\ msgs[i].dt \div SecondsPerMinute = msgs[j].dt \div SecondsPerMinute
    /\ msgs[i].text # msgs[j].text
    /\ normalize_text_for_dedup(msgs[i].text) = normalize_text_for_dedup(msgs[j].text)

\* C4: two messages of one import whose timestamps fall in the same minute
\* and whose bodies differ only in whitespace get the same dedup key: the
\* later one is skipped, one row carries the key afterwards, and the earlier
\* one is the inserted row when the key was not met before it.
C4_WhitespaceCollision ==
    IsImport(lastOp.op) =>
        \A i, j \in 1..Len(lastOp.msgs) :
            WhitespaceTwins(lastOp.msgs, i, j) =>
                LET key == ImportRow(lastOp.msgs[i], lastOp.source).dedup_key
                IN /\ ImportRow(lastOp.msgs[j], lastOp.source).dedup_key = key
                   /\ lastOp.outcomes[j] = 0
                   /\ Cardinality({k \in 1..Len(messages) :
                                      messages[k].dedup_key = key}) = 1
                   /\ ( /\ key \notin KeysOfTable(lastOp.before)
                        /\ \A k \in 1..(i - 1) :
                               ImportRow(lastOp.msgs[k], lastOp.source).dedup_key # key )
                      => lastOp.outcomes[i] = 1

\* an import of exactly two such messages into a table without their key
C4_Witness ==
    /\ IsImport(lastOp.op)
    /\ Len(lastOp.msgs) = 2
    /\ WhitespaceTwins(lastOp.msgs, 1, 2)
    /\ lastOp.outcomes = <<1, 0>>
    /\ lastOp.before # <<>>

----------------------------------------------------------------------------
(* Properties of the chunker (checked under SpecChunker).                  *)

\* C5: for every payload and every max_bytes (those at or above the floor of
\* the chunk size included), the chunks returned by
\* _split_text_chunks_by_bytes, concatenated in order, are the payload.
C5_ConcatRoundTrip ==
    chunks.returned => Concat(chunks.list) = text

\* a split into three or more chunks at a limit not below the floor
C5_Witness ==
    /\ chunks.returned
    /\ max_bytes >= MinChunkBytes
    /\ Len(chunks.list) >= 3
    /\ \E i \in 1..Len(text) : IsLineBreak(text[i])

\* the chunk is one code point whose encoding alone is larger than maxb
LoneWideCodePoint(chunk, maxb) == Len(chunk) = 1 /\ Utf8Size(chunk) > maxb

\* C6: for a non-empty payload and a positive max_bytes every chunk has at
\* most max_bytes UTF-8 bytes, unless it is one code point that is larger by
\* itself, and every chunk boundary lies between two code points of the
\* payload's encoding.
C6_ChunkBound ==
    (chunks.returned /\ text # <<>> /\ max_bytes > 0) =>
        LET bytes == Utf8Encode(text)
        IN \A k \in 1..Len(chunks.list) :
              LET chunk == chunks.list[k]
                  off == Utf8Size(Concat(SubSeq(chunks.list, 1, k)))
              IN /\ Utf8Size(chunk) <= max_bytes \/ LoneWideCodePoint(chunk, max_bytes)
                 /\ off <= Len(bytes)
                 /\ off < Len(bytes) => ~IsContinuation(bytes[off + 1])

\* a split in which one chunk fills the limit exactly with a multi-byte code
\* point in it, next to a code point that is wider than the limit
C6_Witness ==
    /\ chunks.returned
    /\ max_bytes > 0
    /\ \E k \in 1..Len(chunks.list) : LoneWideCodePoint(chunks.list[k], max_bytes)
    /\ \E k \in 1..Len(chunks.list) :
          /\ Len(chunks.list[k]) >= 2
          /\ Utf8Size(chunks.list[k]) = max_bytes
          /\ \E i \in 1..Len(chunks.list[k]) : chunks.list[k][i] >= 128

\* C7: _split_text_chunks_by_bytes on the empty string returns exactly one
\* empty chunk for any max_bytes, and for no input does it return zero chunks.
C7_EmptyPayload ==
    chunks.returned =>
        /\ chunks.list # <<>>
        /\ text = <<>> => chunks.list = << <<>> >>

\* the call on the empty string with a positive limit
C7_Witness ==
    /\ chunks.returned
    /\ text = <<>>
    /\ max_bytes > 0

----------------------------------------------------------------------------
(* Properties of chat upload and download (SpecBackup, SpecRemoteLoss).    *)

\* the part paths prefix.part001.txt .. prefix.partNNN.txt, in order
PartPaths(n) == [i \in 1..n |-> PartPath(i)]

\* C8: the chat upload writes a payload of exactly threshold bytes as one
\* file at the canonical path and no part file, and a payload of threshold + 1
\* bytes as two or more part files followed by a manifest at the canonical
\* path that lists them.
C8_ThresholdBoundary ==
    up.pc = "done" =>
        LET threshold == _get_chat_chunk_bytes(chunkEnv)
            size == Utf8Size(up.chat_plain)
            n == Len(up.writes) - 1
        IN /\ size = threshold =>
                 /\ up.writes = <<CanonicalPath>>
                 /\ remote[CanonicalPath] = Utf8Encode(up.chat_plain)
           /\ size = threshold + 1 =>
                 /\ n >= 2
                 /\ up.writes = Append(PartPaths(n), CanonicalPath)
                 /\ _parse_chat_parts_manifest(Utf8Decode(remote[CanonicalPath]))
                        = [kind |-> "parts", parts |-> PartPaths(n)]

\* a finished upload of threshold + 1 bytes right after one of threshold bytes
C8_Witness ==
    /\ up.pc = "done"
    /\ Utf8Size(up.chat_plain) = _get_chat_chunk_bytes(chunkEnv) + 1
    /\ lastUpload.completed
    /\ Utf8Size(lastUpload.chat_plain) = _get_chat_chunk_bytes(chunkEnv)

\* C9: after any sequence of completed chat uploads to a remote nobody else
\* writes, a download of the branch head returns exactly the payload of the
\* most recent completed upload.
C9_DownloadLatest ==
    (dl.pc = "done" /\ lastUpload.completed) =>
        dl.result = Found(lastUpload.chat_plain)

\* a download through a manifest while a part file of an earlier, longer
\* upload is still on the remote
C9_Witness ==
    /\ dl.pc = "done"
    /\ lastUpload.completed
    /\ Len(dl.part_paths) >= 2
    /\ PartPath(Len(dl.part_paths) + 1) \in DOMAIN remote

\* C10: when the canonical file is a manifest and a listed chunk is missing
\* on the remote, the download returns None and never the concatenation of
\* the chunks it found.
C10_MissingChunk ==
    ( /\ dl.pc = "done"
      /\ dl.part_paths # <<>>
      /\ \E i \in 1..Len(dl.part_paths) : dl.part_paths[i] \notin DOMAIN remote )
    => dl.result = None

\* a download that found its first chunk and misses a later one
C10_Witness ==
    /\ dl.pc = "done"
    /\ Len(dl.parts) >= 1
    /\ dl.part_paths[1] \in DOMAIN remote
    /\ \E i \in 2..Len(dl.part_paths) : dl.part_paths[i] \notin DOMAIN remote
    /\ dl.result = None

----------------------------------------------------------------------------
(* Properties of the manifest codec (checked under SpecCodec).             *)

\* C11 (as stated): for every non-empty list of chunk paths, parsing the
\* manifest built from the list returns the same paths in the same order.
C11_ManifestRoundTrip ==
    mf.called => mf.parsed = [kind |-> "parts", parts |-> mf.part_paths]

\* what _parse_chat_parts_manifest leaves of a path as it stands: the path is
\* not empty, has no whitespace at either end, no leading "/", and holds none
\* of the line boundaries that json.dumps writes unescaped
PlainPath(path) ==
    /\ path # <<>>
    /\ Strip(path) = path
    /\ Head(path) # 47
    /\ \A i \in 1..Len(path) : path[i] \notin {133, 8232, 8233}

\* C11 (amended): for every non-empty list of chunk paths that are non-empty,
\* carry no whitespace at either end and no leading "/", and hold none of
\* U+0085, U+2028, U+2029 (as every path the chat upload writes for a prefix
\* of that kind), parsing the manifest built from the list returns the same
\* paths in the same order.
C11_ManifestRoundTripAmended ==
    (mf.called /\ \A i \in 1..Len(mf.part_paths) : PlainPath(mf.part_paths[i]))
        => mf.parsed = [kind |-> "parts", parts |-> mf.part_paths]

\* the round trip of two different plain paths, one with a quote and an
\* inner space
C11_Witness ==
    /\ mf.called
    /\ Len(mf.part_paths) = 2
    /\ mf.part_paths[1] # mf.part_paths[2]
    /\ \A i \in 1..2 : PlainPath(mf.part_paths[i])
    /\ \E i \in 1..2 : \E k \in 1..Len(mf.part_paths[i]) : mf.part_paths[i][k] = 34
    /\ mf.parsed.kind = "parts"

----------------------------------------------------------------------------
(* Properties of the sync engine (checked under SpecSync unless stated).   *)

\* the attempt of thread t has taken its decision
Decided(t) == sy[t].decision # ""

\* the persisted state and the cached signature are as the attempt found them
StateUntouched(t) ==
    stateFile = sy[t].start_file /\ lastSig = sy[t].start_sig

\* C12: when the latest successful sync had signature S and the content of
\* the database still has signature S, the next attempt issues no remote
\* write, returns False and leaves the persisted state and the cached
\* signature as they were.
C12_UnchangedContent ==
    \A t \in Threads :
        (Decided(t) /\ sy[t].returned # "True" /\ synced = Found(sy[t].signature))
            => /\ sy[t].decision # "upload"
               /\ sy[t].returned = "False"
               /\ ~sy[t].put
               /\ StateUntouched(t)

\* an attempt ended as a no-op on content that an earlier sync had uploaded
\* in several chunk files
C12_Witness ==
    \E t \in Threads :
        /\ sy[t].pc = "done" /\ sy[t].decision = "noop"
        /\ synced = Found(sy[t].signature)
        /\ sy[t].chat_count > 0
        /\ PartPath(1) \in DOMAIN remote

\* C13: an attempt that ends as a no-op because the persisted or the cached
\* signature equals the current one has made no network call, remote reads
\* included, whatever the persisted state holds.
C13_NoOpWithoutNetwork ==
    \A t \in Threads : sy[t].decision = "noop" => ~sy[t].net

\* the baseline of the attempt (the persisted counts, or the counts recovered
\* from the remote) is known and a current count is below it
BelowBaseline(t) ==
    /\ sy[t].state.has_counts
    /\ \/ sy[t].chat_count < sy[t].state.chat_count
       \/ sy[t].diary_count < sy[t].state.diary_count

\* C14: when the current chat or diary count is below the baseline, an
\* attempt without force ends Blocked: it returns False, issues no remote
\* write and leaves the persisted state and the cached signature as they
\* were.  The same attempt with force is not blocked, and it goes on to the
\* upload when its baseline is the persisted state.
C14_DecreaseGuard ==
    \A t \in Threads :
        (Decided(t) /\ BelowBaseline(t))
            => IF sy[t].force
               THEN /\ sy[t].decision # "blocked"
                    /\ sy[t].state = sy[t].start_file => sy[t].decision = "upload"
               ELSE /\ sy[t].decision = "blocked"
                    /\ sy[t].returned = "False"
                    /\ ~sy[t].put
                    /\ StateUntouched(t)

\* an unforced attempt was blocked: the persisted state has the chat count of
\* an earlier sync and the database now has fewer messages
C14_Witness ==
    \E t \in Threads :
        /\ sy[t].pc = "done" /\ ~sy[t].force /\ sy[t].decision = "blocked"
        /\ sy[t].start_file.has_counts
        /\ sy[t].state = sy[t].start_file
        /\ sy[t].chat_count < sy[t].start_file.chat_count

\* a forced attempt with a count below the persisted baseline uploaded and
\* saved the lower count
C14_ForcedWitness ==
    \E t \in Threads :
        /\ sy[t].pc = "done" /\ sy[t].force /\ sy[t].returned = "True"
        /\ sy[t].start_file.has_counts
        /\ sy[t].chat_count < sy[t].start_file.chat_count
        /\ stateFile.chat_count = sy[t].chat_count

\* C15: when a step of the export or of the upload fails (also after chunk
\* files or the chat file were written and before the diary file), the
\* attempt ends with False, and the persisted state and the cached signature
\* are as the attempt found them.
C15_FailureKeepsState ==
    \A t \in Threads :
        sy[t].failures \cap {"export", "sha_read", "write"} # {}
            => /\ sy[t].pc = "done"
               /\ sy[t].returned = "False"
               /\ StateUntouched(t)

\* the attempt failed at the diary file, after it had written two chunk
\* files and the manifest
C15_Witness ==
    \E t \in Threads :
        /\ sy[t].pc = "done" /\ "write" \in sy[t].failures
        /\ sy[t].idx = Len(sy[t].writes) /\ sy[t].idx >= 4
        /\ remote[CanonicalPath] = Utf8Encode(sy[t].writes[sy[t].idx - 1].content)
        /\ stateFile.signature # sy[t].signature

----------------------------------------------------------------------------
(* Properties of overlapping sync invocations (checked under               *)
(* SpecSyncThreads).                                                       *)

\* the invocation of thread t has read the persisted state for its decision
\* and has not yet written the new state
InRegion(t) == sy[t].pc \in {"recover", "get_sha", "put", "save"}

\* C17: one mutual-exclusion region covers read-state, decide and
\* write-state: no two invocations are at the same time between their read
\* of the persisted state and their write of it.
C17_SingleRegion ==
    \A a, b \in Threads : (a # b /\ InRegion(a)) => ~InRegion(b)

\* C18: across unforced attempts, overlapping ones included, the persisted
\* chat count and the persisted diary count never decrease.
C18_CountsNeverDecrease ==
    [][stateFile.has_counts =>
          /\ stateFile'.chat_count >= stateFile.chat_count
          /\ stateFile'.diary_count >= stateFile.diary_count]_vars

----------------------------------------------------------------------------
(* Properties of the sync engine on a shared remote (checked under         *)
(* SpecSyncConflict).                                                      *)

\* C19: when a second client writes a path after _github_put_file has read
\* the sha of that path and before its PUT, the PUT is rejected: the other
\* client's content stays at the path, the attempt ends with False and the
\* persisted state and the cached signature are as the attempt found them.
C19_ConflictRejected ==
    \A t \in Threads :
        (sy[t].conflict /\ sy[t].put /\ sy[t].pc # "put")
            => /\ ~sy[t].overwrote
               /\ remote[SyncTarget(t).path] = OtherContent
               /\ sy[t].pc = "done"
               /\ sy[t].returned = "False"
               /\ StateUntouched(t)

\* the PUT of the manifest was rejected after both chunk files were
\* written: the other client had written the canonical path in between
C19_Witness ==
    \E t \in Threads :
        /\ sy[t].conflict /\ sy[t].pc = "done" /\ "write" \in sy[t].failures
        /\ sy[t].idx = 3 /\ SyncTarget(t).path = CanonicalPath
        /\ remote[CanonicalPath] = OtherContent

----------------------------------------------------------------------------
(* Properties of the rebuild (checked under SpecRebuild).                  *)

\* the table normalize_db_senders_and_dedup builds from the rows tbl
RebuiltTable(tbl) ==
    RebuildLoop(<<>>, OrderByDtId(tbl, 1..Len(tbl)), me_sender, other_sender, <<>>).table

\* at every statement of a rebuild, and after one that stopped, the file
\* has a messages table, with the rows it had before the call or, once the
\* rebuild is through, with the rebuilt rows
AllOrNothing ==
    /\ rb.has_messages
    /\ \/ messages = rb.before
       \/ rb.pc = "done" /\ messages = RebuiltTable(rb.before)
    /\ rb.pc = "done" => messages = RebuiltTable(rb.before)

\* C20: the rebuild is all-or-nothing: when it fails or the process stops at
\* any statement the messages table holds the rows it held before the call,
\* otherwise it holds the rebuilt rows, and no state in between (table
\* missing, partly filled or emptied) is observable in the database file.
C20_RebuildAllOrNothing == rb.pc # "idle" => AllOrNothing

\* the same for the rebuilds of a table that has rows
RebuildAllOrNothingWithRows ==
    (rb.pc # "idle" /\ rb.before # <<>>) => AllOrNothing

----------------------------------------------------------------------------
(* Properties of the rebuild pass (checked under SpecLegacy).              *)

\* the last operation was a rebuild
Rebuilt == lastOp.op = "normalize_db_senders_and_dedup"

\* the dedup key of a stored row, from its timestamp and its text
KeyOfRow(r) ==
    _dedup_key(_dt_minute(fromisoformat(r.dt)), normalize_text_for_dedup(r.text))

\* row i comes before row j in ascending (timestamp, row id) order
EarlierRow(tbl, i, j) ==
    \/ fromisoformat(tbl[i].dt) < fromisoformat(tbl[j].dt)
    \/ fromisoformat(tbl[i].dt) = fromisoformat(tbl[j].dt) /\ i < j

\* row i is the first of the rows of tbl that map to its key
FirstOfKey(tbl, i) ==
    \A j \in 1..Len(tbl) :
        (j # i /\ KeyOfRow(tbl[j]) = KeyOfRow(tbl[i])) => EarlierRow(tbl, i, j)

\* the stored row r was made from the row b of the table before the rebuild
MadeFrom(r, b) ==
    /\ r.dt = b.dt /\ r.text = b.text /\ r.source = b.source
    /\ r.dedup_key = KeyOfRow(b)

\* C21: for each dedup key the rebuild keeps the row that is first in
\* ascending (timestamp, row id) order among the rows that map to the key
\* and drops every later one, whatever its content; kept + dropped is the
\* number of rows before the call.
C21_KeepsFirstOfKey ==
    Rebuilt =>
        LET before == lastOp.before
            firsts == {i \in 1..Len(before) : FirstOfKey(before, i)}
        IN /\ \A i \in firsts : \E k \in 1..Len(messages) : MadeFrom(messages[k], before[i])
           /\ \A k \in 1..Len(messages) : \E i \in firsts : MadeFrom(messages[k], before[i])
           /\ Len(messages) = Cardinality(firsts)
           /\ lastOp.result.kept = Cardinality(firsts)
           /\ lastOp.result.dropped = Len(before) - Cardinality(firsts)
           /\ lastOp.result.kept + lastOp.result.dropped = Len(before)

\* the rebuild dropped a row that was inserted before the row it kept but
\* has the later timestamp, and that differs from it in its text
C21_Witness ==
    /\ Rebuilt /\ Len(lastOp.before) = 2 /\ Len(messages) = 1
    /\ lastOp.result.dropped = 1
    /\ messages[1].dt = lastOp.before[2].dt
    /\ fromisoformat(lastOp.before[2].dt) < fromisoformat(lastOp.before[1].dt)
    /\ lastOp.before[1].text # lastOp.before[2].text

\* The columns of a row that the rebuild can change or that identify it.
RowSet(tbl) ==
    {<<tbl[i].dt, tbl[i].sender, tbl[i].text, tbl[i].dedup_key>> : i \in 1..Len(tbl)}

\* C22: a rebuild that directly follows a rebuild (same labels) drops nothing:
\* it reports dropped = 0 and kept = total, its total is the number of rows
\* the first run kept, and the set of rows (timestamp, sender, text, dedup
\* key) after it is the set before it.
C22_RebuildIdempotent ==
    (Rebuilt /\ lastOp.again) =>
        /\ lastOp.result.dropped = 0
        /\ lastOp.result.kept = lastOp.result.total
        /\ lastOp.result.total = lastOp.first.kept
        /\ lastOp.result.total = Len(lastOp.before)
        /\ RowSet(messages) = RowSet(lastOp.before)
        /\ Len(messages) = Len(lastOp.before)

\* The first run dropped a row and relabelled a sender; the second run found
\* nothing to do.
C22_Witness ==
    /\ Rebuilt /\ lastOp.again
    /\ lastOp.first.dropped = 1
    /\ Len(lastOp.firstBefore) = 2
    /\ \E i \in 1..2 : lastOp.firstBefore[i].sender \notin {me_sender, other_sender}
    /\ Len(messages) = 1

AllCanonical(tbl) ==
    \A i \in 1..Len(tbl) : tbl[i].sender \in {me_sender, other_sender}

\* C23: once the rebuild has run every row's sender is one of the two
\* canonical labels: in the state right after the rebuild, and in the state
\* an import of the application reaches from there.
C23_SendersCanonical ==
    [][/\ Rebuilt => AllCanonical(messages)
       /\ (Rebuilt /\ IsImport(lastOp'.op)) => AllCanonical(messages')]_vars

\* What the code keeps: the labels are canonical right after the rebuild and
\* import_messages_canonicalized preserves that.
CanonicalImportKeepsLabels ==
    [][/\ Rebuilt => AllCanonical(messages)
       /\ (AllCanonical(messages) /\ lastOp'.op = "import_messages_canonicalized")
            => AllCanonical(messages')]_vars

\* C24: after each sync the loop sleeps max(floor, interval - elapsed): the
\* starts of two consecutive syncs are exactly the interval apart when the
\* first took at most interval - floor, and elapsed + floor apart otherwise;
\* a sync never starts less than the floor after the previous one ended.
C24_SleepRemainder ==
    /\ sched.pc = "sleep" =>
          sched.wait_seconds = Max(SleepFloorSeconds, sched.interval_seconds - sched.elapsed)
    /\ (sched.pc = "sync" /\ sched.gap >= 0) =>
          /\ sched.prev_elapsed <= sched.interval_seconds - SleepFloorSeconds
                => sched.gap = sched.interval_seconds
          /\ sched.prev_elapsed > sched.interval_seconds - SleepFloorSeconds
                => sched.gap = sched.prev_elapsed + SleepFloorSeconds
          /\ sched.rest >= SleepFloorSeconds
          /\ sched.rest = sched.gap - sched.prev_elapsed

\* a sync that outlasted interval - floor, followed by the floor
C24_Witness ==
    /\ sched.pc = "sync"
    /\ sched.prev_elapsed = sched.interval_seconds - SleepFloorSeconds + 1
    /\ sched.rest = SleepFloorSeconds
    /\ sched.gap = sched.interval_seconds + 1

\* a short sync, followed by the rest of the interval
C24_WitnessOnTime ==
    /\ sched.pc = "sync"
    /\ sched.prev_elapsed = 1
    /\ sched.gap = sched.interval_seconds
    /\ sched.rest > SleepFloorSeconds

Started == sched.pc \in {"sync", "sleep"}

\* C25: the effective interval is 12 hours when none is configured and is
\* never below 1 hour: a configured positive value under 60 minutes is
\* raised to 1 hour.
C25_HourFloor ==
    Started =>
        /\ sched.env.kind = "unset" => sched.interval_seconds = 12 * SecondsPerHour
        /\ sched.interval_seconds >= SecondsPerHour
        /\ (sched.env.kind = "minutes" /\ sched.env.seconds < SecondsPerHour)
              => sched.interval_seconds = SecondsPerHour

\* C25 (amended): the effective interval is 12 hours when none is configured
\* and never below 1 minute: a configured positive value under 1 minute is
\* raised to 1 minute, every other positive value is taken as it is, and
\* with a non-positive or non-numeric value the loop is not started.
C25_MinuteFloor ==
    /\ Started =>
          /\ sched.env.kind = "unset" => sched.interval_seconds = 12 * SecondsPerHour
          /\ sched.env.kind # "text"
          /\ sched.interval_seconds >= SecondsPerMinute
          /\ sched.env.kind = "minutes" =>
                /\ sched.env.seconds > 0
                /\ sched.env.seconds < SecondsPerMinute
                      => sched.interval_seconds = SecondsPerMinute
                /\ sched.env.seconds >= SecondsPerMinute
                      => sched.interval_seconds = sched.env.seconds
    /\ (sched.pc = "disabled" /\ sched.configured) =>
          /\ sched.interval_seconds = 0
          /\ \/ sched.env.kind = "text"
             \/ sched.env.kind = "minutes" /\ sched.env.seconds <= 0

\* 30 minutes are configured and the loop runs every 30 minutes
C25_Witness ==
    /\ Started
    /\ sched.env = IntervalMinutes(1800)
    /\ sched.interval_seconds = 1800

\* C26: when the canonical file starts with the manifest header and the rest
\* is malformed (empty body, invalid JSON, no non-empty list of parts), the
\* download returns no data: never the manifest document or other text.
C26_DamagedManifestNoData ==
    (dl.pc \in {"done", "raised"} /\ dl.raw # None /\ dl.raw.text \in DamagedManifests) =>
        /\ dl.pc = "done"
        /\ dl.result = None

\* the manifest document itself is what the download returns
DamagedManifestReturned ==
    /\ dl.pc = "done"
    /\ dl.raw # None /\ dl.raw.text \in DamagedManifests
    /\ dl.result = dl.raw

\* the download raises on a JSON body that is no object
DamagedManifestRaises ==
    /\ dl.pc = "raised"
    /\ dl.raw # None /\ dl.raw.text \in DamagedManifests

\* the attempt has taken its decision and has written nothing since: the
\* latest commit of the canonical path is the one the decision could read
AtDecision(t) ==
    /\ Decided(t)
    /\ \/ sy[t].pc = "done" /\ sy[t].decision \in {"blocked", "noop"}
       \/ sy[t].pc \in {"get_sha", "put"} /\ sy[t].idx = 1

\* the state _load_backup_state returned to the attempt
LoadedState(t) ==
    IF "state_read" \in sy[t].failures THEN EmptyState ELSE sy[t].start_file

\* C28: the baseline of the decrease guard is the persisted pair of counts
\* when the state holds it; otherwise the pair (N, M) of the latest commit of
\* the canonical path, obtained with exactly one remote read; otherwise it is
\* unknown and the guard does not block.  An unforced attempt whose chat
\* count is below N or whose diary count is below M is Blocked, also when no
\* local state exists.
C28_Baseline ==
    \A t \in Threads :
        AtDecision(t) =>
            LET rec == sy[t]
                file == LoadedState(t)
                remote_ok == "counts_read" \notin rec.failures /\ headCommit.found
            IN /\ file.has_counts => (rec.state = file /\ rec.count_reads = 0)
               /\ ~file.has_counts =>
                     /\ rec.count_reads = 1
                     /\ rec.state.signature = file.signature
                     /\ IF remote_ok
                        THEN /\ rec.state.has_counts
                             /\ rec.state.chat_count = headCommit.chat_count
                             /\ rec.state.diary_count = headCommit.diary_count
                        ELSE /\ ~rec.state.has_counts
                             /\ rec.decision # "blocked"
               /\ (~rec.force /\ BelowBaseline(t)) => rec.decision = "blocked"
               /\ rec.decision = "blocked" => (~rec.force /\ BelowBaseline(t))

\* no local state exists, the latest commit says (chat 2, ...) and the
\* database holds fewer messages: the unforced attempt is blocked after one
\* remote read
C28_Witness ==
    \E t \in Threads :
        /\ sy[t].pc = "done" /\ ~sy[t].force /\ sy[t].decision = "blocked"
        /\ sy[t].start_file = EmptyState
        /\ sy[t].failures = {}
        /\ sy[t].count_reads = 1
        /\ headCommit.found
        /\ sy[t].chat_count < headCommit.chat_count

\* an attempt that uploads the chat in chunks: the part files, the manifest
\* and the diary file
Chunked(t) == sy[t].decision = "upload" /\ Len(sy[t].writes) > 2

NumChunks(t) == Len(sy[t].writes) - 2

\* the write at position i of the attempt has reached the remote
Written(t, i) ==
    RemoteAt(sy[t].writes[i].path) = Found(Utf8Encode(sy[t].writes[i].content))

\* C27: a chunked upload writes the chunks to prefix.part001.txt,
\* prefix.part002.txt, ... in order and overwrites the canonical path with
\* the manifest only after every chunk write succeeded; when a chunk write
\* fails the canonical path keeps the content it had before the upload and
\* the diary file is not written.
C27_ManifestAfterChunks ==
    \A t \in Threads :
        Chunked(t) =>
            LET n == NumChunks(t)
                rec == sy[t]
            IN /\ \A i \in 1..n : rec.writes[i].path = PartPath(i)
               /\ rec.writes[n + 1] =
                     [path |-> CanonicalPath,
                      content |-> _build_chat_parts_manifest(PartPaths(n))]
               /\ rec.writes[n + 2].path = DiaryPath
               /\ \A i \in 1..(rec.idx - 1) : Written(t, i)
               /\ (rec.pc \in {"get_sha", "put"} /\ rec.idx <= n + 1)
                     => RemoteAt(CanonicalPath) = rec.start_canonical
               /\ (rec.pc \in {"get_sha", "put"} /\ rec.idx <= n + 2)
                     => RemoteAt(DiaryPath) = rec.start_diary
               /\ (rec.pc = "done" /\ rec.idx <= n)
                     => /\ rec.failures # {}
                        /\ rec.returned = "False"
                        /\ RemoteAt(CanonicalPath) = rec.start_canonical
                        /\ RemoteAt(DiaryPath) = rec.start_diary

\* the write of the second chunk failed after the first had been written; the
\* canonical file of an earlier backup is still there
C27_Witness ==
    \E t \in Threads :
        /\ Chunked(t)
        /\ sy[t].pc = "done" /\ sy[t].idx = 2
        /\ "write" \in sy[t].failures
        /\ Written(t, 1)
        /\ sy[t].start_canonical # None
        /\ RemoteAt(CanonicalPath) = sy[t].start_canonical
        /\ RemoteAt(CanonicalPath) # Found(Utf8Encode(sy[t].writes[NumChunks(t) + 1].content))

\* C29: when two invocations overlap and both exported the same content, at
\* most one of them performs remote writes; the other ends NoOp without
\* touching the remote.
C29_OneUploader ==
    \A a, b \in Threads :
        (/\ a # b
         /\ sy[a].pc # "idle" /\ sy[b].pc # "idle"
         /\ sy[a].signature = sy[b].signature
         /\ sy[a].put
         /\ Decided(b))
            => /\ sy[b].decision = "noop"
               /\ ~sy[b].put

\* both threads have sent a PUT for the same content
BothUploaded ==
    /\ sy["request"].put /\ sy["scheduler"].put
    /\ sy["request"].signature = sy["scheduler"].signature

AllIdle == \A t \in Threads : sy[t].pc = "idle"

RECURSIVE PartTexts(_)
PartTexts(part_paths) ==
    IF part_paths = <<>> THEN <<>>
    ELSE <<_github_get_file_text(Head(part_paths))>> \o PartTexts(Tail(part_paths))

\* the chat text a download reassembles from the remote, or None
RemoteChat ==
    LET raw == _github_get_file_text(CanonicalPath)
    IN IF raw = None THEN None
       ELSE LET m == _parse_chat_parts_manifest(raw.text)
            IN IF m.kind # "parts" THEN raw
               ELSE LET texts == PartTexts(m.parts)
                    IN IF \E i \in 1..Len(texts) : texts[i] = None THEN None
                       ELSE Found(Concat([i \in 1..Len(texts) |-> texts[i].text]))

\* C30: whenever no attempt is in flight and the persisted signature is the
\* signature of chat text C and diary text D, the remote holds C at the
\* canonical path (after reassembly) and D at the diary path, also after
\* overlapping invocations that exported different contents.
C30_StateMatchesRemote ==
    (AllIdle /\ stateFile.signature # <<>>) =>
        LET chat == RemoteChat
            diary == _github_get_file_text(DiaryPath)
        IN /\ chat # None
           /\ diary # None
           /\ stateFile.signature = _compute_backup_signature(chat.text, diary.text)

----------------------------------------------------------------------------
(* Properties of the decrease guard across attempts (checked under         *)
(* SpecGuard and SpecGuardNoFailure).                                      *)

\* C31: once an unforced attempt was blocked by the decrease guard, every
\* later unforced attempt is blocked too, without upload and without change
\* of the persisted state, until both live counts are at or above the
\* baseline again.
C31_BlockedStaysBlocked ==
    \A t \in Threads :
        (Decided(t) /\ ~sy[t].force /\ guard.active)
            => /\ sy[t].decision = "blocked"
               /\ ~sy[t].put
               /\ StateUntouched(t)

\* a second attempt in a row was blocked by the same baseline
BlockedAgain ==
    \E t \in Threads :
        /\ sy[t].pc = "done" /\ sy[t].decision = "blocked"
        /\ guard = GuardOf(sy[t])

\* an attempt that follows a blocked one has uploaded a lower count
UploadedBelowGuard ==
    \E t \in Threads :
        /\ sy[t].pc = "done" /\ sy[t].returned = "True"
        /\ guard.active
        /\ sy[t].chat_count < guard.chat_count

----------------------------------------------------------------------------
(* Properties of the start of the periodic backup (checked under           *)
(* SpecStarter).                                                           *)

\* C32: however many times and from however many threads
\* start_periodic_github_backup is called in one process, at most one
\* background backup loop is started (and only with the flag set).
C32_AtMostOneLoop ==
    /\ starter.loops <= 1
    /\ starter.loops = 1 => starter._PERIODIC_BACKUP_STARTED

\* every thread has made all its calls, every call returned True, and one
\* loop runs
C32_Witness ==
    /\ starter.loops = 1
    /\ \A c \in Callers :
          /\ starter.calls[c] = MaxCalls
          /\ starter.pc[c] = "idle"
          /\ starter.returned[c] = "True"

----------------------------------------------------------------------------
(* Properties of the loop thread (checked under SpecLoopFair).             *)

\* an attempt of the loop has ended, with whatever outcome
AttemptEnded == sched.pc = "sync" /\ sy[LoopThread].pc = "done"

\* an attempt of the loop has just exported the database as it is now, or
\* has failed to export it
AttemptStarted ==
    /\ sched.pc = "sync"
    /\ \/ /\ sy[LoopThread].pc = "load"
          /\ sy[LoopThread].chat_plain = _export_plain(live.chat)
          /\ sy[LoopThread].decision = ""
       \/ /\ sy[LoopThread].pc = "done"
          /\ "export" \in sy[LoopThread].failures

\* C33: the loop never stops because of the outcome of an attempt: after
\* every attempt the loop sleeps, and after every sleep the next attempt
\* starts from scratch, with a new export and no decision taken yet.
C33_LoopGoesOn ==
    /\ AttemptEnded ~> (sched.pc = "sleep")
    /\ (sched.pc = "sleep") ~> AttemptStarted
    /\ [](sched.pc # "dead")

\* after an attempt that failed (files on the remote, no state saved) and a
\* sleep, the next attempt has started
C33_Witness ==
    /\ sched.gap >= 0
    /\ sy[LoopThread].pc = "load"
    /\ headCommit.found /\ ~stateFile.has_counts

----------------------------------------------------------------------------
(* Properties of import_messages statement by statement (checked under     *)
(* SpecImport).                                                            *)

\* C34: when a call of import_messages stops before its commit (exception
\* or end of the process), the table holds exactly the rows it held when
\* the call began: none of the messages of the call, every earlier row
\* unchanged.
C34_ImportAllOrNothing ==
    im.pc \in {"raised", "crashed"} => messages = im.before

\* a call on a table with rows stopped after an INSERT that added a row
C34_Witness ==
    /\ im.pc \in {"raised", "crashed"}
    /\ Len(im.before) >= 1
    /\ Count(im.outcomes, 1) >= 1

\* every row of old is in new, at its place and with all its columns
RowsKept(old, new) ==
    /\ Len(new) >= Len(old)
    /\ \A i \in 1..Len(old) : new[i] = old[i]

\* C35: import_messages never deletes or changes an existing row: every
\* statement of the call leaves each row the connection sees as it is (a
\* message that collides with a stored key changes nothing), and the commit
\* leaves each committed row as it is.
C35_ImportKeepsRows ==
    [][/\ RowsKept(messages, messages')
       /\ im'.txn.active => RowsKept(ImportView(im), im'.txn.rows)]_vars

\* the latest INSERT was ignored, and the stored row of its key differs from
\* the message in timestamp, sender, text and source
C35_Witness ==
    /\ im.pc = "loop" /\ im.i > 1
    /\ im.outcomes[im.i - 1] = 0
    /\ LET row == ImportRow(im.msgs[im.i - 1], im.source)
           view == ImportView(im)
       IN \E j \in 1..Len(view) :
             /\ view[j].dedup_key = row.dedup_key
             /\ view[j].dt # row.dt /\ view[j].sender # row.sender
             /\ view[j].text # row.text /\ view[j].source # row.source

----------------------------------------------------------------------------
(* The dedup key and the sender (checked under SpecLegacy).                *)

\* the minute and the normalized body of a stored row
MinuteBody(r) ==
    <<_dt_minute(fromisoformat(r.dt)), normalize_text_for_dedup(r.text)>>

\* the row carries the key the present code computes for it
PresentKey(r) == r.dedup_key = KeyOfRow(r)

\* C36: the dedup key does not depend on the sender.  A message whose minute
\* and normalized body are those of a stored row (with the present key) is
\* skipped on import whatever the two senders are; after a rebuild no two
\* rows share minute and normalized body, one row is left per such pair,
\* and the table has no more rows than before.
C36_KeyIgnoresSender ==
    /\ IsImport(lastOp.op) =>
          \A i \in 1..Len(lastOp.msgs) :
              LET m == lastOp.msgs[i]
                  b == lastOp.before
              IN (\E j \in 1..Len(b) :
                      /\ PresentKey(b[j])
                      /\ MinuteBody(b[j]) =
                           <<_dt_minute(m.dt), normalize_text_for_dedup(m.text)>>)
                    => lastOp.outcomes[i] = 0
    /\ Rebuilt =>
          /\ \A i, j \in 1..Len(messages) :
                i # j => MinuteBody(messages[i]) # MinuteBody(messages[j])
          /\ Len(messages) =
                Cardinality({MinuteBody(lastOp.before[i]) : i \in 1..Len(lastOp.before)})
          /\ Len(messages) <= Len(lastOp.before)

\* the rebuild ran on two rows of one minute and one normalized body whose
\* canonical senders differ, and left one of them
C36_Witness ==
    /\ Rebuilt
    /\ Len(messages) < Len(lastOp.before)
    /\ \E i, j \in 1..Len(lastOp.before) :
          /\ MinuteBody(lastOp.before[i]) = MinuteBody(lastOp.before[j])
          /\ _canonicalize_sender(lastOp.before[i].sender, me_sender, other_sender)
                # _canonicalize_sender(lastOp.before[j].sender, me_sender, other_sender)

\* a message was skipped on import whose sender differs from that of the
\* stored row of its minute and normalized body
ImportSkippedOtherSender ==
    /\ IsImport(lastOp.op) /\ Len(lastOp.msgs) = 1
    /\ lastOp.outcomes = <<0>>
    /\ \E j \in 1..Len(lastOp.before) :
          /\ PresentKey(lastOp.before[j])
          /\ MinuteBody(lastOp.before[j]) =
                <<_dt_minute(lastOp.msgs[1].dt), normalize_text_for_dedup(lastOp.msgs[1].text)>>
          /\ lastOp.before[j].sender # lastOp.msgs[1].sender

----------------------------------------------------------------------------
(* Downloads that overlap an upload (checked under SpecConcurrent).        *)

\* the latest completed upload was chunked
OldChunked ==
    /\ lastUpload.completed
    /\ ~FitsSingleFile(Utf8Size(lastUpload.chat_plain), _get_chat_chunk_bytes(chunkEnv))

\* a chunked upload is in progress
NewChunked == up.pc # "idle" /\ up.chunks # <<>>

\* C37: while a chunked upload replaces an earlier chunked backup, a
\* download of the branch head returns the earlier payload in full, the new
\* payload in full, or not-found, and never a concatenation that mixes
\* chunks of the two.
C37_NoMixedDownload ==
    (dl.pc = "done" /\ NewChunked /\ OldChunked) =>
        dl.result \in {None, Found(lastUpload.chat_plain), Found(up.chat_plain)}

\* a download has joined chunks while a chunked upload replaces a chunked
\* backup, and what it returns is neither payload
MixedDownload ==
    /\ dl.pc = "done" /\ NewChunked /\ OldChunked
    /\ Len(dl.parts) >= 2
    /\ dl.result.found
    /\ dl.result.text # lastUpload.chat_plain
    /\ dl.result.text # up.chat_plain


====
